---- MODULE Spec2Model ----
(***************************************************************************)
(* BAF archive engine (crate-lib): the byte stream, the segment chain, the *)
(* in-memory index, the coverage map and the mutating operations of        *)
(* Archive, modelled from src/crate-lib/src.                               *)
(*                                                                         *)
(* The stream is a sparse map from the address of a field to the field's   *)
(* encoded value (its width is that of the field); a write replaces every  *)
(* field it covers.  An Option is a sequence of length 0 (None) or 1       *)
(* (Some).  DirectoryIdOrRoot is a number, Root being 0, as it is encoded. *)
(***************************************************************************)
EXTENDS Integers, Sequences, FiniteSets, TLC

\* ---------------------------------------------------------------- bounds
\* Number of state-changing operations explored in one behaviour.
MaxOps == 4

\* ------------------------------------------------------ program constants
HEADER_SIZE == 256
DIRECTORY_ENTRY_SIZE == 280
FILE_ENTRY_SIZE == 328
DIRECTORY_NAME_OFFSET_IN_ENTRY == 16
FILE_NAME_OFFSET_IN_ENTRY == 16

\* The ArchiveConfig that the caller passes to create and open: small slot
\* capacities (each a NonZero<u32>), so that segments fill up within MaxOps.
default_dirs_capacity_by_ft_segment == 1
default_files_capacity_by_ft_segment == 1
first_segment_dirs_capacity_override == 2
first_segment_files_capacity_override == 3

\* ----------------------------------------------------------------- inputs
Root == 0
Names == {"a", "b"}
\* A u64 is written as its eight base-256 digits, least significant first.
T1 == <<1, 0, 0, 0, 0, 0, 0, 0>>
T2 == <<2, 0, 0, 0, 0, 0, 0, 0>>
Contents == {<<>>, <<5>>, <<6, 7>>}
\* Modification times passed to the creations and to replace_file_content.
CreateTimes == {T1}
ReplaceTimes == {T2}
\* Identifiers a caller may pass (existing or not).
Ids == 1..MaxOps

\* ---------------------------------------------------------------- helpers
Max(S) == CHOOSE x \in S : \A y \in S : y <= x
Min(S) == CHOOSE x \in S : \A y \in S : x <= y
Reverse(s) == [i \in 1..Len(s) |-> s[Len(s) + 1 - i]]
Some(x) == <<x>>
None == <<>>
IsSome(o) == Len(o) = 1

RECURSIVE SumWidths(_, _)
RECURSIVE FlattenSeq(_)
\* Concatenation of a sequence of sequences.
FlattenSeq(ss) == IF ss = <<>> THEN <<>> ELSE Head(ss) \o FlattenSeq(Tail(ss))

\* ----------------------------------------------------------------- codec
\* Timestamp::encode writes to_be_bytes; a u64 is read back with
\* from_le_bytes, so the digits of the decoded value are the stored bytes.
TimestampEncode(t) == Reverse(t)
TimestampDecode(bytes) == bytes

\* SHA3-256 as an ideal (injective) hash of the content.
Sha3(content) == [h |-> content]

\* Field kinds of the stream and their widths in bytes.
U64Cell(n) == [u64 |-> n]
U32Cell(n) == [u32 |-> n]
NameCell(n) == [name |-> n]
TimeCell(bytes) == [time |-> bytes]
SumCell(s) == [sum |-> s]
ByteCell(b) == [byte |-> b]
HeaderCell == [magic |-> "BASICARC", version |-> 1]

Width(cell) ==
    IF "u64" \in DOMAIN cell THEN 8
    ELSE IF "u32" \in DOMAIN cell THEN 4
    ELSE IF "name" \in DOMAIN cell THEN 256
    ELSE IF "time" \in DOMAIN cell THEN 8
    ELSE IF "sum" \in DOMAIN cell THEN 32
    ELSE IF "byte" \in DOMAIN cell THEN 1
    ELSE HEADER_SIZE

SumWidths(cells, n) == IF n = 0 THEN 0 ELSE SumWidths(cells, n - 1) + Width(cells[n])
EncodedLen(cells) == SumWidths(cells, Len(cells))

\* ItemName::encode: length byte, the name, zero padding (one 256-byte field).
ItemNameEncode(name) == NameCell(name)

\* Directory::encode
DirectoryEncode(dir) ==
    << U64Cell(dir.id), U64Cell(dir.parent_dir), ItemNameEncode(dir.name),
       TimeCell(TimestampEncode(dir.modif_time)) >>

\* File::encode
FileEncode(file) ==
    << U64Cell(file.id), U64Cell(file.parent_dir), ItemNameEncode(file.name),
       TimeCell(TimestampEncode(file.modif_time)), U64Cell(file.content_addr),
       U64Cell(file.content_len), SumCell(file.sha3_checksum) >>

\* vec![0; DIRECTORY_ENTRY_SIZE] and vec![0; FILE_ENTRY_SIZE]
ZeroTime == <<0, 0, 0, 0, 0, 0, 0, 0>>
ZeroSum == [zero |-> 32]
ZeroDirectoryEntry ==
    << U64Cell(0), U64Cell(0), NameCell(""), TimeCell(ZeroTime) >>
ZeroFileEntry ==
    << U64Cell(0), U64Cell(0), NameCell(""), TimeCell(ZeroTime), U64Cell(0),
       U64Cell(0), SumCell(ZeroSum) >>

\* FileTableSegment::encode
FileTableSegmentEncode(segment) ==
    << U64Cell(segment.next_segment_addr), U32Cell(Len(segment.dirs)),
       U32Cell(Len(segment.files)) >>
    \o FlattenSeq([i \in 1..Len(segment.dirs) |->
            IF IsSome(segment.dirs[i]) THEN DirectoryEncode(segment.dirs[i][1])
            ELSE ZeroDirectoryEntry])
    \o FlattenSeq([i \in 1..Len(segment.files) |->
            IF IsSome(segment.files[i]) THEN FileEncode(segment.files[i][1])
            ELSE ZeroFileEntry])

\* FileTableSegment::encoded_len
encoded_len(segment) ==
    16 + Len(segment.dirs) * DIRECTORY_ENTRY_SIZE + Len(segment.files) * FILE_ENTRY_SIZE

\* FileTableSegment::dir_entry_offset / file_entry_offset (index from 0)
dir_entry_offset(segment, index) == 16 + index * DIRECTORY_ENTRY_SIZE
file_entry_offset(segment, index) ==
    16 + Len(segment.dirs) * DIRECTORY_ENTRY_SIZE + index * FILE_ENTRY_SIZE

\* Content bytes as stream fields.
ContentCells(content) == [i \in 1..Len(content) |-> ByteCell(content[i])]

\* ---------------------------------------------------------------- stream
\* Source::set_position(addr) followed by Source::write_all(cells): every
\* field that intersects the written range is replaced, the stream grows to
\* the end of the write.
\* PutCells lays the fields of cells one after the other from addr on.
RECURSIVE PutCells(_, _, _, _)
PutCells(f, addr, cells, i) ==
    IF i > Len(cells) THEN f
    ELSE PutCells([a \in (DOMAIN f) \cup {addr} |-> IF a = addr THEN cells[i] ELSE f[a]],
                  addr + Width(cells[i]), cells, i + 1)

WriteAt(src, addr, cells) ==
    LET total == EncodedLen(cells)
        kept == {a \in DOMAIN src.cells :
                    a + Width(src.cells[a]) <= addr \/ a >= addr + total}
    IN [len |-> IF addr + total > src.len THEN addr + total ELSE src.len,
        cells |-> PutCells([a \in kept |-> src.cells[a]], addr, cells, 1)]

EmptySource == [len |-> 0, cells |-> <<>>]

\* -------------------------------------------------------------- coverage
\* Coverage { len, segments: BTreeSet<Segment> }; Segment's Ord compares the
\* start only, so the set holds at most one segment per start.
RECURSIVE SortedSegments(_)
SortedSegments(segments) ==
    IF segments = {} THEN <<>>
    ELSE LET first == CHOOSE s \in segments : \A o \in segments : s.start <= o.start
         IN <<first>> \o SortedSegments(segments \ {first})

\* Coverage::new
CoverageNew(len) == [len |-> len, segments |-> {}]

\* Coverage::grow_to; ok is FALSE when the assertion fails.
\* grow_to_kept is the same without the assignment of len.
grow_to_kept(coverage, new_len) ==
    [ok |-> new_len >= coverage.len, coverage |-> coverage]
grow_to(coverage, new_len) ==
    [ok |-> new_len >= coverage.len,
     coverage |-> [coverage EXCEPT !.len = new_len]]

\* Coverage::mark_as_used; ok is FALSE when one of the two assertions fails.
mark_as_used(coverage, start, len) ==
    IF len = 0 THEN [ok |-> TRUE, coverage |-> coverage]
    ELSE
    LET sorted == SortedSegments(coverage.segments)
        prevIdx == {i \in 1..Len(sorted) : sorted[i].start <= start}
        nextIdx == {i \in 1..Len(sorted) : sorted[i].start >= start}
        prevOk == prevIdx = {} \/
                  sorted[Min(prevIdx)].start + sorted[Min(prevIdx)].len <= start
        nextOk == nextIdx = {} \/
                  sorted[Min(nextIdx)].start + sorted[Min(nextIdx)].len >= start + len
    IN [ok |-> prevOk /\ nextOk,
        coverage |->
            IF \E s \in coverage.segments : s.start = start THEN coverage
            ELSE [coverage EXCEPT !.segments = @ \cup {[start |-> start, len |-> len]}]]

\* Coverage::mark_as_free; ok is FALSE when the assertion fails.
\* mark_as_free_kept is the same without the removal.
mark_as_free_kept(coverage, segment) == [ok |-> TRUE, coverage |-> coverage]
mark_as_free(coverage, segment) ==
    IF segment.len > 0
    THEN [ok |-> \E s \in coverage.segments : s.start = segment.start,
          coverage |-> [coverage EXCEPT
                !.segments = {s \in @ : s.start # segment.start}]]
    ELSE [ok |-> TRUE, coverage |-> coverage]

\* FreeSegmentsIter: the zones yielded by successive calls of next, in order.
FreeZonesAmong(coverage, sorted) ==
    LET n == Len(sorted)
        before == IF n = 0
                  THEN (IF coverage.len > 0
                        THEN <<[start |-> 0, len |-> coverage.len]>> ELSE <<>>)
                  ELSE (IF sorted[1].start > 0
                        THEN <<[start |-> 0, len |-> sorted[1].start]>> ELSE <<>>)
        between == FlattenSeq([i \in 1..(IF n = 0 THEN 0 ELSE n - 1) |->
                      LET prev_end == sorted[i].start + sorted[i].len
                      IN IF prev_end < sorted[i + 1].start
                         THEN <<[start |-> prev_end, len |-> sorted[i + 1].start - prev_end]>>
                         ELSE <<>>])
        after == IF n = 0 THEN <<>>
                 ELSE LET free_from == sorted[n].start + sorted[n].len
                      IN IF free_from < coverage.len
                         THEN <<[start |-> free_from, len |-> coverage.len - free_from]>>
                         ELSE <<>>
    IN before \o between \o after

\* find_free_zones_no_tail is the same iterator ending before the zone that
\* follows the last segment.
find_free_zones_no_tail(coverage) ==
    FreeZonesAmong([coverage EXCEPT !.len = IF coverage.segments = {} THEN @ ELSE 0],
                   SortedSegments(coverage.segments))
find_free_zones(coverage) == FreeZonesAmong(coverage, SortedSegments(coverage.segments))

\* Coverage::find_free_zone_for: filter, then min_by_key (the first minimum).
\* SmallestZoneForLast keeps the last minimum instead.
SmallestZoneForLast(zones, capacity) ==
    LET fit == {i \in 1..Len(zones) : zones[i].len >= capacity}
    IN IF fit = {} THEN None
       ELSE LET best == Max({i \in fit : \A j \in fit : zones[i].len <= zones[j].len})
            IN Some(zones[best])

SmallestZoneFor(zones, capacity) ==
    LET fit == {i \in 1..Len(zones) : zones[i].len >= capacity}
    IN IF fit = {} THEN None
       ELSE LET best == Min({i \in fit : \A j \in fit : zones[i].len <= zones[j].len})
            IN Some(zones[best])

find_free_zone_for(coverage, capacity) ==
    SmallestZoneFor(find_free_zones(coverage), capacity)

\* Coverage::next_writable_addr
next_writable_addr(coverage) ==
    LET sorted == SortedSegments(coverage.segments)
    IN IF Len(sorted) = 0 THEN 0
       ELSE sorted[Len(sorted)].start + sorted[Len(sorted)].len

\* archive.rs compute_coverage: segs is the sequence of <<address, segment>>.
\* ok is FALSE when a mark_as_used assertion fails.
RECURSIVE MarkFiles(_, _, _)
MarkFiles(acc, files, i) ==
    IF i > Len(files) THEN acc
    ELSE LET f == files[i]
             r == mark_as_used(acc.coverage, f.content_addr, f.content_len)
         IN MarkFiles([ok |-> acc.ok /\ r.ok, coverage |-> r.coverage], files, i + 1)

RECURSIVE MarkSegments(_, _, _)
MarkSegments(acc, segs, i) ==
    IF i > Len(segs) THEN acc
    ELSE LET r == mark_as_used(acc.coverage, segs[i][1], encoded_len(segs[i][2]))
             occupied == FlattenSeq(segs[i][2].files)
         IN MarkSegments(
                MarkFiles([ok |-> acc.ok /\ r.ok, coverage |-> r.coverage], occupied, 1),
                segs, i + 1)

\* compute_coverage_without_header is the same without the range of the
\* header.
compute_coverage_without_header(segs, len) ==
    MarkSegments([ok |-> TRUE, coverage |-> CoverageNew(len)], segs, 1)

compute_coverage(segs, len) ==
    LET h == mark_as_used(CoverageNew(len), 0, HEADER_SIZE)
    IN MarkSegments(h, segs, 1)

\* ------------------------------------------------------- archive helpers
\* The fields of Archive are gathered in a record a:
\*   source, file_segments, dirs, files, dirs_content, coverage.
\* An operation yields [st, a, ret]: st is "ok" (Ok), "err" (Err) or "panic"
\* (a failed assert! or unwrap()), a the fields afterwards, ret the value.
MapPut(f, k, v) == [x \in (DOMAIN f) \cup {k} |-> IF x = k THEN v ELSE f[x]]
MapDel(f, k) == [x \in (DOMAIN f) \ {k} |-> f[x]]
EmptyMap == <<>>

\* DirContent::default
DirContentDefault == [dirs |-> {}, files |-> {}, names |-> {}]

Outcome(st, a, ret) == [st |-> st, a |-> a, ret |-> ret]

\* Archive::segment_addr (segment_index from 1)
segment_addr(a, segment_index) ==
    IF segment_index = 1 THEN HEADER_SIZE
    ELSE a.file_segments[segment_index - 1].next_segment_addr

\* Position of the first element of seq that satisfies id = wanted, from 0;
\* -1 when there is none (Iterator::position).
PositionOfId(seq, wanted) ==
    LET hits == {i \in 1..Len(seq) : seq[i].id = wanted}
    IN IF hits = {} THEN -1 ELSE Min(hits) - 1

\* Archive::get_item_entry: in each segment the position is taken in
\* segment.dirs.iter().flatten() (resp. files), i.e. among occupied slots.
EntryIndexIn(segment, kind, id) ==
    PositionOfId(FlattenSeq(IF kind = "dir" THEN segment.dirs ELSE segment.files), id)

SegmentEntry(a, kind, segment_index, entry_index) ==
    [segment_index |-> segment_index,
     entry_index |-> entry_index,
     entry_addr |-> segment_addr(a, segment_index)
        + (IF kind = "dir"
           THEN dir_entry_offset(a.file_segments[segment_index], entry_index)
           ELSE file_entry_offset(a.file_segments[segment_index], entry_index))]

get_item_entry(a, kind, id) ==
    LET found == {s \in 1..Len(a.file_segments) :
                    EntryIndexIn(a.file_segments[s], kind, id) >= 0}
    IN IF found = {} THEN None
       ELSE LET s == Min(found)
            IN Some(SegmentEntry(a, kind, s, EntryIndexIn(a.file_segments[s], kind, id)))

\* Archive::write_data_where_possible; ret is the address of the data.
\* WriteDataIn is its body once the free zone has been looked up.
WriteDataIn(a, cells, zone) ==
    LET len == EncodedLen(cells)
        growing == ~IsSome(zone)
        addr == IF IsSome(zone) THEN zone[1].start ELSE next_writable_addr(a.coverage)
        src == WriteAt(a.source, addr, cells)
        grown == IF growing THEN grow_to(a.coverage, src.len)
                 ELSE [ok |-> TRUE, coverage |-> a.coverage]
        marked == mark_as_used(grown.coverage, addr, len)
        a1 == [a EXCEPT !.source = src, !.coverage = marked.coverage]
    IN IF grown.ok /\ marked.ok THEN Outcome("ok", a1, addr)
       ELSE Outcome("panic", [a EXCEPT !.source = src], addr)

write_data_where_possible(a, cells) ==
    WriteDataIn(a, cells, find_free_zone_for(a.coverage, EncodedLen(cells)))

\* Archive::create_segment; ret is the index of the new segment.
NewSegment(dirs_capacity, files_capacity) ==
    [next_segment_addr |-> 0,
     dirs |-> [i \in 1..dirs_capacity |-> None],
     files |-> [i \in 1..files_capacity |-> None]]

\* LinkSegmentInMemory is LinkSegment without the write of the address into
\* the former tail on disk.
LinkSegmentInMemory(a, segment, w) ==
    LET last == Len(a.file_segments)
        a1 == [w.a EXCEPT !.file_segments =
                              Append([@ EXCEPT ![last].next_segment_addr = w.ret], segment)]
    IN IF w.st # "ok" THEN w ELSE Outcome("ok", a1, last + 1)

LinkSegment(a, segment, w) ==
    LET last == Len(a.file_segments)
        src == WriteAt(w.a.source, segment_addr(w.a, last), <<U64Cell(w.ret)>>)
        a1 == [w.a EXCEPT !.source = src,
                          !.file_segments =
                              Append([@ EXCEPT ![last].next_segment_addr = w.ret], segment)]
    IN IF w.st # "ok" THEN w ELSE Outcome("ok", a1, last + 1)

create_segment(a) ==
    LinkSegment(a, NewSegment(default_dirs_capacity_by_ft_segment,
                              default_files_capacity_by_ft_segment),
                write_data_where_possible(a,
                    FileTableSegmentEncode(
                        NewSegment(default_dirs_capacity_by_ft_segment,
                                   default_files_capacity_by_ft_segment))))

\* Archive::get_addr_for_item_insert; ret is the SegmentEntry.
\* LastEmptyIn is FirstEmptyIn searching from the end (the reverse search
\* the TODO of the source considers).
LastEmptyIn(segment, kind) ==
    LET slots == IF kind = "dir" THEN segment.dirs ELSE segment.files
        empty == {i \in 1..Len(slots) : ~IsSome(slots[i])}
    IN IF empty = {} THEN -1 ELSE Max(empty) - 1

FirstEmptyIn(segment, kind) ==
    LET slots == IF kind = "dir" THEN segment.dirs ELSE segment.files
        empty == {i \in 1..Len(slots) : ~IsSome(slots[i])}
    IN IF empty = {} THEN -1 ELSE Min(empty) - 1

FirstEntryOfNew(kind, c) ==
    IF c.st # "ok" THEN c
    ELSE Outcome("ok", c.a, SegmentEntry(c.a, kind, c.ret, 0))

get_addr_for_item_insert(a, kind) ==
    LET found == {s \in 1..Len(a.file_segments) :
                    FirstEmptyIn(a.file_segments[s], kind) >= 0}
    IN IF found # {}
       THEN LET s == Min(found)
            IN Outcome("ok", a, SegmentEntry(a, kind, s, FirstEmptyIn(a.file_segments[s], kind)))
       ELSE FirstEntryOfNew(kind, create_segment(a))

\* Archive::ensure_no_duplicate_name: TRUE for Ok(()).
ensure_no_duplicate_name(a, name, parent_dir) ==
    /\ parent_dir \in DOMAIN a.dirs_content
    /\ name \notin a.dirs_content[parent_dir].names

\* The identifier given to a new item (create_dir, create_file).
NextId(a) ==
    LET ids == (DOMAIN a.dirs) \cup (DOMAIN a.files)
    IN IF ids = {} THEN 1 ELSE Max(ids) + 1

\* ------------------------------------------------------------ operations
\* Archive::create on an empty stream.
ArchiveCreate ==
    LET segment == NewSegment(first_segment_dirs_capacity_override,
                              first_segment_files_capacity_override)
        src == WriteAt(WriteAt(EmptySource, 0, <<HeaderCell>>),
                       HEADER_SIZE, FileTableSegmentEncode(segment))
    IN [source |-> src,
        file_segments |-> <<segment>>,
        dirs |-> EmptyMap,
        files |-> EmptyMap,
        dirs_content |-> MapPut(EmptyMap, Root, DirContentDefault),
        coverage |-> compute_coverage(<< <<HEADER_SIZE, segment>> >>, src.len).coverage]

\* Archive::create_dir; ret is the new DirectoryId.
\* CreateDirAt is the body after the call of get_addr_for_item_insert, whose
\* outcome is ins.
CreateDirAt(ins, parent_dir, name, modif_time) ==
    LET e == ins.ret
        id == NextId(ins.a)
        dir == [id |-> id, name |-> name, parent_dir |-> parent_dir,
                modif_time |-> modif_time]
        src == WriteAt(ins.a.source, e.entry_addr, DirectoryEncode(dir))
        parent == ins.a.dirs_content[parent_dir]
        asserts == name \notin parent.names /\ id \notin parent.dirs
                   /\ id \notin DOMAIN ins.a.dirs
        content1 == [ins.a.dirs_content EXCEPT
                        ![parent_dir].names = @ \cup {name},
                        ![parent_dir].dirs = @ \cup {id}]
        a1 == [ins.a EXCEPT
                 !.source = src,
                 !.dirs_content = MapPut(content1, id, DirContentDefault),
                 !.file_segments[e.segment_index].dirs[e.entry_index + 1] = Some(dir),
                 !.dirs = MapPut(@, id, dir)]
    IN IF ins.st # "ok" THEN Outcome(ins.st, ins.a, 0)
       ELSE IF ~asserts THEN Outcome("panic", [ins.a EXCEPT !.source = src], 0)
       ELSE Outcome("ok", a1, id)

create_dir(a, parent_dir, name, modif_time) ==
    IF ~ensure_no_duplicate_name(a, name, parent_dir) THEN Outcome("err", a, 0)
    ELSE CreateDirAt(get_addr_for_item_insert(a, "dir"), parent_dir, name, modif_time)

\* Archive::create_file; ret is the new FileId.
\* CreateFileAt is the body after the calls of get_addr_for_item_insert and
\* write_data_where_possible, whose outcomes are ins and w.
CreateFileAt(ins, w, parent_dir, name, modif_time, content) ==
    LET e == ins.ret
        id == NextId(w.a)
        file == [id |-> id, parent_dir |-> parent_dir, name |-> name,
                 modif_time |-> modif_time, content_addr |-> w.ret,
                 content_len |-> Len(content), sha3_checksum |-> Sha3(content)]
        src == WriteAt(w.a.source, e.entry_addr, FileEncode(file))
        parent == w.a.dirs_content[parent_dir]
        asserts == name \notin parent.names /\ id \notin parent.files
                   /\ id \notin DOMAIN w.a.files
        a1 == [w.a EXCEPT
                 !.source = src,
                 !.dirs_content[parent_dir].names = @ \cup {name},
                 !.dirs_content[parent_dir].files = @ \cup {id},
                 !.file_segments[e.segment_index].files[e.entry_index + 1] = Some(file),
                 !.files = MapPut(@, id, file)]
    IN IF ins.st # "ok" THEN Outcome(ins.st, ins.a, 0)
       ELSE IF w.st # "ok" THEN Outcome(w.st, w.a, 0)
       ELSE IF ~asserts THEN Outcome("panic", [w.a EXCEPT !.source = src], 0)
       ELSE Outcome("ok", a1, id)

CreateFileIn(ins, parent_dir, name, modif_time, content) ==
    CreateFileAt(ins, write_data_where_possible(ins.a, ContentCells(content)),
                 parent_dir, name, modif_time, content)

create_file(a, parent_dir, name, modif_time, content) ==
    IF ~ensure_no_duplicate_name(a, name, parent_dir) THEN Outcome("err", a, 0)
    ELSE CreateFileIn(get_addr_for_item_insert(a, "file"),
                      parent_dir, name, modif_time, content)

\* Archive::replace_file_content
\* ReplaceWith is the body after get_item_entry found the entry, the old
\* content range was freed and the new content written (outcome w).
ReplaceWith(a, id, new_modif_time, new_content, found, freed, w) ==
    LET e == found[1]
        file == a.files[id]
        new_file == [file EXCEPT !.content_addr = w.ret,
                                 !.content_len = Len(new_content),
                                 !.sha3_checksum = Sha3(new_content),
                                 !.modif_time = new_modif_time]
        src == WriteAt(w.a.source, e.entry_addr, FileEncode(new_file))
        slot == a.file_segments[e.segment_index].files[e.entry_index + 1]
        a1 == [w.a EXCEPT
                 !.source = src,
                 !.files[id] = new_file,
                 !.file_segments[e.segment_index].files[e.entry_index + 1] = Some(new_file)]
    IN IF ~IsSome(found) THEN Outcome("err", a, 0)
       ELSE IF id \notin DOMAIN a.files THEN Outcome("panic", a, 0)
       ELSE IF ~freed.ok THEN Outcome("panic", a, 0)
       ELSE IF w.st # "ok" THEN Outcome(w.st, w.a, 0)
       ELSE IF ~IsSome(slot) THEN Outcome("panic", [w.a EXCEPT !.source = src], 0)
       ELSE Outcome("ok", a1, 0)

ReplaceFreed(a, id, new_modif_time, new_content, found, freed) ==
    ReplaceWith(a, id, new_modif_time, new_content, found, freed,
                write_data_where_possible([a EXCEPT !.coverage = freed.coverage],
                                          ContentCells(new_content)))

replace_file_content(a, id, new_modif_time, new_content) ==
    IF id \notin DOMAIN a.files
    THEN (IF IsSome(get_item_entry(a, "file", id)) THEN Outcome("panic", a, 0)
          ELSE Outcome("err", a, 0))
    ELSE ReplaceFreed(a, id, new_modif_time, new_content, get_item_entry(a, "file", id),
                      mark_as_free(a.coverage,
                          [start |-> a.files[id].content_addr,
                           len |-> a.files[id].content_len]))

\* The parent's names after a rename: names.remove(old) then
\* names.insert(new). RenamedNamesKeepsNone is the same without the insert.
RenamedNamesKeepsNone(names, old_name, new_name) == names \ {old_name}
RenamedNames(names, old_name, new_name) == (names \ {old_name}) \cup {new_name}

\* Archive::rename_directory (kind = "dir") and Archive::rename_file
\* (kind = "file"): the two bodies differ only in the collections they use.
rename_item(a, kind, id, new_name) ==
    LET found == get_item_entry(a, kind, id)
        e == found[1]
        index == IF kind = "dir" THEN a.dirs ELSE a.files
        item == index[id]
        offset == IF kind = "dir" THEN DIRECTORY_NAME_OFFSET_IN_ENTRY
                  ELSE FILE_NAME_OFFSET_IN_ENTRY
        src == WriteAt(a.source, e.entry_addr + offset, <<ItemNameEncode(new_name)>>)
        slot == IF kind = "dir"
                THEN a.file_segments[e.segment_index].dirs[e.entry_index + 1]
                ELSE a.file_segments[e.segment_index].files[e.entry_index + 1]
        parent_ok == /\ item.parent_dir \in DOMAIN a.dirs_content
                     /\ item.name \in a.dirs_content[item.parent_dir].names
                     /\ new_name \notin a.dirs_content[item.parent_dir].names \ {item.name}
        names1 == RenamedNames(a.dirs_content[item.parent_dir].names, item.name, new_name)
        a1 == IF kind = "dir"
              THEN [a EXCEPT
                     !.source = src,
                     !.file_segments[e.segment_index].dirs[e.entry_index + 1][1].name = new_name,
                     !.dirs[id].name = new_name,
                     !.dirs_content[item.parent_dir].names = names1]
              ELSE [a EXCEPT
                     !.source = src,
                     !.file_segments[e.segment_index].files[e.entry_index + 1][1].name = new_name,
                     !.files[id].name = new_name,
                     !.dirs_content[item.parent_dir].names = names1]
    IN IF ~IsSome(found) THEN Outcome("err", a, 0)
       ELSE IF id \notin DOMAIN index THEN Outcome("panic", a, 0)
       ELSE IF ~ensure_no_duplicate_name(a, new_name, item.parent_dir)
            THEN Outcome("err", a, 0)
       ELSE IF ~IsSome(slot) \/ ~parent_ok THEN Outcome("panic", [a EXCEPT !.source = src], 0)
       ELSE Outcome("ok", a1, 0)

rename_directory(a, id, new_name) == rename_item(a, "dir", id, new_name)
rename_file(a, id, new_name) == rename_item(a, "file", id, new_name)

\* What remove_file writes over the slot of the file: FILE_ENTRY_SIZE zero
\* bytes. FileSlotWipeSkipped is the write of nothing.
FileSlotWipeSkipped == <<>>
FileSlotWipe == ZeroFileEntry

\* Archive::remove_file; ret is the removed File.
remove_file(a, id) ==
    LET found == get_item_entry(a, "file", id)
        e == found[1]
        src == WriteAt(a.source, e.entry_addr, FileSlotWipe)
        slot == a.file_segments[e.segment_index].files[e.entry_index + 1]
        file == a.files[id]
        parent_ok == /\ file.parent_dir \in DOMAIN a.dirs_content
                     /\ id \in a.dirs_content[file.parent_dir].files
                     /\ file.name \in a.dirs_content[file.parent_dir].names
        freed == mark_as_free(a.coverage,
                    [start |-> file.content_addr, len |-> file.content_len])
        a1 == [a EXCEPT
                 !.source = src,
                 !.file_segments[e.segment_index].files[e.entry_index + 1] = None,
                 !.files = MapDel(@, id),
                 !.dirs_content[file.parent_dir].files = @ \ {id},
                 !.dirs_content[file.parent_dir].names = @ \ {file.name},
                 !.coverage = freed.coverage]
    IN IF ~IsSome(found) THEN Outcome("err", a, 0)
       ELSE IF ~IsSome(slot) \/ id \notin DOMAIN a.files
            THEN Outcome("panic", [a EXCEPT !.source = src], 0)
       ELSE IF ~parent_ok \/ ~freed.ok THEN Outcome("panic", [a EXCEPT !.source = src], 0)
       ELSE Outcome("ok", a1, file)

\* Archive::remove_dir. The children are collected from HashMap::values(),
\* whose order is unspecified: the operator yields the set of outcomes over
\* all orders. An Err of a nested call is returned at once by `?`.
RECURSIVE remove_dir(_, _)
RECURSIVE RemoveSubDirs(_, _)
RECURSIVE RemoveSubFiles(_, _)

RemoveSubDirs(a, sub_dirs) ==
    IF sub_dirs = {} THEN {Outcome("ok", a, 0)}
    ELSE UNION {UNION {IF o.st = "ok" THEN RemoveSubDirs(o.a, sub_dirs \ {d}) ELSE {o}
                        : o \in remove_dir(a, d)}
                : d \in sub_dirs}

RemoveSubFiles(a, sub_files) ==
    IF sub_files = {} THEN {Outcome("ok", a, 0)}
    ELSE UNION {LET o == remove_file(a, f)
                IN IF o.st = "ok" THEN RemoveSubFiles(o.a, sub_files \ {f}) ELSE {o}
                : f \in sub_files}

\* The part of remove_dir after the children are gone; e is the SegmentEntry
\* computed before they were removed.
RemoveDirEntry(a, id, e) ==
    LET src == WriteAt(a.source, e.entry_addr, ZeroDirectoryEntry)
        slot == a.file_segments[e.segment_index].dirs[e.entry_index + 1]
        dir == a.dirs[id]
        parent_ok == /\ dir.parent_dir \in DOMAIN a.dirs_content
                     /\ id \in a.dirs_content[dir.parent_dir].dirs
                     /\ dir.name \in a.dirs_content[dir.parent_dir].names
        own_ok == /\ id \in DOMAIN a.dirs_content
                  /\ a.dirs_content[id] = DirContentDefault
        content1 == [a.dirs_content EXCEPT
                        ![dir.parent_dir].dirs = @ \ {id},
                        ![dir.parent_dir].names = @ \ {dir.name}]
        a1 == [a EXCEPT
                 !.source = src,
                 !.file_segments[e.segment_index].dirs[e.entry_index + 1] = None,
                 !.dirs = MapDel(@, id),
                 !.dirs_content = MapDel(content1, id)]
    IN IF ~IsSome(slot) \/ id \notin DOMAIN a.dirs
       THEN Outcome("panic", [a EXCEPT !.source = src], 0)
       ELSE IF ~parent_ok \/ ~own_ok THEN Outcome("panic", [a EXCEPT !.source = src], 0)
       ELSE Outcome("ok", a1, dir)

remove_dir(a, id) ==
    LET found == get_item_entry(a, "dir", id)
        sub_dirs == {d \in DOMAIN a.dirs : a.dirs[d].parent_dir = id}
        sub_files == {f \in DOMAIN a.files : a.files[f].parent_dir = id}
        after_dirs == RemoveSubDirs(a, sub_dirs)
        after_files == UNION {IF o.st = "ok" THEN RemoveSubFiles(o.a, sub_files) ELSE {o}
                              : o \in after_dirs}
    IN IF ~IsSome(found) THEN {Outcome("err", a, 0)}
       ELSE {IF o.st = "ok" THEN RemoveDirEntry(o.a, id, found[1]) ELSE o
             : o \in after_files}

\* ------------------------------------------------------------------ open
HasCell(src, addr, kind) ==
    addr \in DOMAIN src.cells /\ kind \in DOMAIN src.cells[addr]

\* ItemName::decode of the 256-byte field: Ok exactly for a valid name.
ItemNameDecodeOk(cell) == cell.name # ""

\* Directory::consume_from_reader at addr: [ok, entry] with entry an Option.
DirectoryDecode(src, addr) ==
    IF ~HasCell(src, addr, "u64") THEN [ok |-> FALSE, entry |-> None]
    ELSE IF src.cells[addr].u64 = 0 THEN [ok |-> TRUE, entry |-> None]
    ELSE IF ~(/\ HasCell(src, addr + 8, "u64")
              /\ HasCell(src, addr + 16, "name")
              /\ ItemNameDecodeOk(src.cells[addr + 16])
              /\ HasCell(src, addr + 272, "time"))
         THEN [ok |-> FALSE, entry |-> None]
    ELSE [ok |-> TRUE,
          entry |-> Some([id |-> src.cells[addr].u64,
                          name |-> src.cells[addr + 16].name,
                          parent_dir |-> src.cells[addr + 8].u64,
                          modif_time |-> TimestampDecode(src.cells[addr + 272].time)])]

\* File::consume_from_reader at addr.
FileDecode(src, addr) ==
    IF ~HasCell(src, addr, "u64") THEN [ok |-> FALSE, entry |-> None]
    ELSE IF src.cells[addr].u64 = 0 THEN [ok |-> TRUE, entry |-> None]
    ELSE IF ~(/\ HasCell(src, addr + 8, "u64")
              /\ HasCell(src, addr + 16, "name")
              /\ ItemNameDecodeOk(src.cells[addr + 16])
              /\ HasCell(src, addr + 272, "time")
              /\ HasCell(src, addr + 280, "u64")
              /\ HasCell(src, addr + 288, "u64")
              /\ HasCell(src, addr + 296, "sum"))
         THEN [ok |-> FALSE, entry |-> None]
    ELSE [ok |-> TRUE,
          entry |-> Some([id |-> src.cells[addr].u64,
                          parent_dir |-> src.cells[addr + 8].u64,
                          name |-> src.cells[addr + 16].name,
                          modif_time |-> TimestampDecode(src.cells[addr + 272].time),
                          content_addr |-> src.cells[addr + 280].u64,
                          content_len |-> src.cells[addr + 288].u64,
                          sha3_checksum |-> src.cells[addr + 296].sum])]

\* FileTableSegment::decode at addr: [ok, segment].
FileTableSegmentDecode(src, addr) ==
    IF ~(/\ HasCell(src, addr, "u64") /\ HasCell(src, addr + 8, "u32")
         /\ HasCell(src, addr + 12, "u32"))
    THEN [ok |-> FALSE, segment |-> NewSegment(0, 0)]
    ELSE
    LET dirs_count == src.cells[addr + 8].u32
        files_count == src.cells[addr + 12].u32
        d == [i \in 1..dirs_count |->
                DirectoryDecode(src, addr + 16 + (i - 1) * DIRECTORY_ENTRY_SIZE)]
        f == [i \in 1..files_count |->
                FileDecode(src, addr + 16 + dirs_count * DIRECTORY_ENTRY_SIZE
                                + (i - 1) * FILE_ENTRY_SIZE)]
    IN [ok |-> (\A i \in 1..dirs_count : d[i].ok) /\ (\A i \in 1..files_count : f[i].ok),
        segment |-> [next_segment_addr |-> src.cells[addr].u64,
                     dirs |-> [i \in 1..dirs_count |-> d[i].entry],
                     files |-> [i \in 1..files_count |-> f[i].entry]]]

\* The loop of Archive::open over consume_next_segment: the sequence of
\* <<address, segment>> from addr on; ok is FALSE when a segment is invalid.
RECURSIVE DecodeChain(_, _)
DecodeChain(src, addr) ==
    LET s == FileTableSegmentDecode(src, addr)
        rest == DecodeChain(src, s.segment.next_segment_addr)
    IN IF ~s.ok THEN [ok |-> FALSE, segs |-> <<>>]
       ELSE IF s.segment.next_segment_addr = 0
            THEN [ok |-> TRUE, segs |-> << <<addr, s.segment>> >>]
       ELSE [ok |-> rest.ok, segs |-> << <<addr, s.segment>> >> \o rest.segs]

\* .map(|e| (e.id, e.clone())).collect::<HashMap>(): a later entry replaces
\* an earlier one with the same id.
CollectById(entries) ==
    [id \in {entries[i].id : i \in 1..Len(entries)} |->
        entries[Max({i \in 1..Len(entries) : entries[i].id = id})]]

\* health.rs check_file_table_correctness, as three folds over the entries.
\* acc = [panic, errors, dirs_content].
RECURSIVE CheckDirIds(_, _, _)
CheckDirIds(acc, dirs, i) ==
    IF i > Len(dirs) THEN acc
    ELSE CheckDirIds(
            [acc EXCEPT
               !.errors = IF dirs[i].id \in DOMAIN acc.dirs_content
                          THEN Append(@, [kind |-> "DuplicateDirectoryId",
                                          id |-> dirs[i].id, name |-> dirs[i].name])
                          ELSE @,
               !.dirs_content = MapPut(@, dirs[i].id, DirContentDefault)],
            dirs, i + 1)

RECURSIVE CheckItems(_, _, _, _)
CheckItems(acc, kind, items, i) ==
    IF i > Len(items) THEN acc
    ELSE
    LET item == items[i]
        content0 == IF item.parent_dir \in DOMAIN acc.dirs_content THEN acc.dirs_content
                    ELSE MapPut(acc.dirs_content, item.parent_dir, DirContentDefault)
        parent == content0[item.parent_dir]
        fresh_id == IF kind = "dir" THEN item.id \notin parent.dirs
                    ELSE item.id \notin parent.files
    IN CheckItems(
        [panic |-> acc.panic \/ ~fresh_id,
         errors |-> IF item.name \in parent.names
                    THEN Append(acc.errors, [kind |-> "DuplicateItemInDirName",
                                             id |-> item.id, name |-> item.name])
                    ELSE acc.errors,
         dirs_content |-> IF kind = "dir"
             THEN [content0 EXCEPT ![item.parent_dir].dirs = @ \cup {item.id},
                                   ![item.parent_dir].names = @ \cup {item.name}]
             ELSE [content0 EXCEPT ![item.parent_dir].files = @ \cup {item.id},
                                   ![item.parent_dir].names = @ \cup {item.name}]],
        kind, items, i + 1)

check_file_table_correctness(segments) ==
    LET all_dirs == FlattenSeq(FlattenSeq([i \in 1..Len(segments) |-> segments[i].dirs]))
        all_files == FlattenSeq(FlattenSeq([i \in 1..Len(segments) |-> segments[i].files]))
        start == [panic |-> FALSE, errors |-> <<>>,
                  dirs_content |-> MapPut(EmptyMap, Root, DirContentDefault)]
    IN CheckItems(CheckItems(CheckDirIds(start, all_dirs, 1), "dir", all_dirs, 1),
                  "file", all_files, 1)

\* Archive::open on the stream src: st is "ok", "err" (an ArchiveDecodingError)
\* or "panic".
\* OpenChain is its body after the loop over the segments.
OpenChain(src, chain) ==
    LET segments == [i \in 1..Len(chain.segs) |-> chain.segs[i][2]]
        cov == compute_coverage(chain.segs, src.len)
        all_dirs == FlattenSeq(FlattenSeq([i \in 1..Len(segments) |-> segments[i].dirs]))
        all_files == FlattenSeq(FlattenSeq([i \in 1..Len(segments) |-> segments[i].files]))
        check == check_file_table_correctness(segments)
        a == [source |-> src,
              file_segments |-> segments,
              dirs |-> CollectById(all_dirs),
              files |-> CollectById(all_files),
              dirs_content |-> check.dirs_content,
              coverage |-> cov.coverage]
    IN IF ~(HasCell(src, 0, "magic") /\ src.cells[0] = HeaderCell) \/ ~chain.ok
       THEN Outcome("err", a, 0)
       ELSE IF ~cov.ok \/ check.panic THEN Outcome("panic", a, 0)
       ELSE IF check.errors # <<>> THEN Outcome("err", a, check.errors)
       ELSE Outcome("ok", a, 0)

ArchiveOpen(src) == OpenChain(src, DecodeChain(src, HEADER_SIZE))

\* ----------------------------------------------------------- file reader
\* Archive::read_file: None for an unknown id (Err), else the FileReader, on
\* the stream positioned at content_addr. pending_checksum is the sequence of
\* bytes fed to the hasher, position the cursor of the stream.
read_file(a, id) ==
    IF id \notin DOMAIN a.files THEN None
    ELSE Some([len |-> a.files[id].content_len,
               expected_checksum |-> a.files[id].sha3_checksum,
               pending_checksum |-> <<>>,
               pos |-> 0,
               position |-> a.files[id].content_addr])

\* FileReader::validate_checksum_after_reading: TRUE for Ok(()).
\* ValidateNothing is the same without the comparison.
ValidateNothing(r) == TRUE
validate_checksum_after_reading(r) == Sha3(r.pending_checksum) = r.expected_checksum

\* read_len of FileReader::read. ReadLenOfBuf is the same without the min.
ReadLenOfBuf(r, buf_len) == buf_len
ReadLen(r, buf_len) == Min({buf_len, r.len - r.pos})

\* The byte of the stream at addr (-1 where the stream holds no content byte).
ByteAt(src, addr) == IF HasCell(src, addr, "byte") THEN src.cells[addr].byte ELSE -1

\* FileReader::read(buf) with buf.len() = buf_len: [st, r, n, compared]; r is
\* the reader afterwards, n the number of bytes copied into buf, compared
\* tells whether validate_checksum_after_reading was called. consume_next
\* fails when the stream ends before read_len bytes.
FileReaderRead(r, src, buf_len) ==
    LET read_len == ReadLen(r, buf_len)
        bytes == [i \in 1..read_len |-> ByteAt(src, r.position + i - 1)]
        r1 == [r EXCEPT !.pending_checksum = @ \o bytes,
                        !.pos = @ + read_len,
                        !.position = @ + read_len]
    IN IF r.len = 0
       THEN [st |-> IF validate_checksum_after_reading(r) THEN "ok" ELSE "err",
             r |-> r, n |-> 0, compared |-> TRUE]
       ELSE IF r.position + read_len > src.len
       THEN [st |-> "err", r |-> r, n |-> 0, compared |-> FALSE]
       ELSE IF r1.pos = r1.len
       THEN [st |-> IF validate_checksum_after_reading(r1) THEN "ok" ELSE "err",
             r |-> r1, n |-> read_len, compared |-> TRUE]
       ELSE [st |-> "ok", r |-> r1, n |-> read_len, compared |-> FALSE]

\* ----------------------------------------------------------------- state
VARIABLES
    source,         \* the stream S owned by Archive.source
    file_segments,  \* Archive.file_segments
    dirs,           \* Archive.dirs
    files,          \* Archive.files
    dirs_content,   \* Archive.dirs_content
    coverage,       \* Archive.coverage
    status,         \* "open", "panicked" (a panic unwound) or "open_failed"
    result,         \* outcome of the last call that changed the state
    nops,           \* number of calls that changed the state so far
    all_ok,         \* history: every such call returned Ok
    supplied,       \* history: FileId -> content last passed for it to
                    \* create_file or replace_file_content
    reader,         \* the FileReader borrowed from the archive, if any
    last_read,      \* outcome of the last FileReader::read on it
    walk,           \* Archive::open in progress: the locals of its loop
    real_file,      \* a RealFile used on its own, and the file under it
    in_memory,      \* an InMemorySource used on its own
    arg,            \* argument of the function of data/ under evaluation
    ret             \* what the last call on the value used on its own returned

vars == <<source, file_segments, dirs, files, dirs_content, coverage, status,
          result, nops, all_ok, supplied, reader, last_read,
          walk, real_file, in_memory, arg, ret>>

\* The values used on their own, apart from any Archive, and their absence.
units == <<walk, real_file, in_memory, arg, ret>>
NoUnit ==
    /\ walk = None
    /\ real_file = None
    /\ in_memory = None
    /\ arg = None
    /\ ret = None

\* No read was made yet on the reader of file id (0: there is no reader).
\* compared tells whether the call ran validate_checksum_after_reading, calls
\* counts the calls of read on this reader.
NoRead(id) == [st |-> "none", n |-> 0, compared |-> FALSE, calls |-> 0,
               buf_len |-> 0, pos_before |-> 0, file |-> id]

\* The fields of the archive as one record.
Self == [source |-> source, file_segments |-> file_segments, dirs |-> dirs,
         files |-> files, dirs_content |-> dirs_content, coverage |-> coverage]

Init ==
    /\ source = ArchiveCreate.source
    /\ file_segments = ArchiveCreate.file_segments
    /\ dirs = ArchiveCreate.dirs
    /\ files = ArchiveCreate.files
    /\ dirs_content = ArchiveCreate.dirs_content
    /\ coverage = ArchiveCreate.coverage
    /\ status = "open"
    /\ result = "ok"
    /\ nops = 0
    /\ all_ok = TRUE
    /\ supplied = EmptyMap
    /\ reader = None
    /\ last_read = NoRead(0)
    /\ NoUnit

\* The state after a call with outcome o; sup is the content history if the
\* call returns Ok. A panic leaves only the stream (the archive value is
\* gone); an Err that changed nothing leaves the state as it was.
Apply(o, sup) ==
    IF o.st = "panic"
    THEN /\ status' = "panicked"
         /\ result' = "panic"
         /\ source' = o.a.source
         /\ nops' = nops + 1
         /\ all_ok' = FALSE
         /\ UNCHANGED <<file_segments, dirs, files, dirs_content, coverage, supplied,
                        reader, last_read, units>>
    ELSE IF o.st = "err" /\ o.a = Self
    THEN UNCHANGED vars
    ELSE /\ status' = status
         /\ result' = o.st
         /\ source' = o.a.source
         /\ file_segments' = o.a.file_segments
         /\ dirs' = o.a.dirs
         /\ files' = o.a.files
         /\ dirs_content' = o.a.dirs_content
         /\ coverage' = o.a.coverage
         /\ nops' = nops + 1
         /\ all_ok' = (all_ok /\ o.st = "ok")
         /\ supplied' = IF o.st = "ok" THEN sup ELSE supplied
         /\ UNCHANGED <<reader, last_read, units>>

\* The archive can be used: it is open and no FileReader borrows it.
Ready == status = "open" /\ reader = None

CreateDir(parent_dir, name, modif_time) ==
    /\ Ready
    /\ Apply(create_dir(Self, parent_dir, name, modif_time), supplied)

CreateFile(parent_dir, name, modif_time, content) ==
    /\ Ready
    /\ LET o == create_file(Self, parent_dir, name, modif_time, content)
       IN Apply(o, MapPut(supplied, o.ret, content))

ReplaceFileContent(id, new_modif_time, new_content) ==
    /\ Ready
    /\ Apply(replace_file_content(Self, id, new_modif_time, new_content),
             MapPut(supplied, id, new_content))

RenameDirectory(id, new_name) ==
    /\ Ready
    /\ Apply(rename_directory(Self, id, new_name), supplied)

RenameFile(id, new_name) ==
    /\ Ready
    /\ Apply(rename_file(Self, id, new_name), supplied)

RemoveDir(id) ==
    /\ Ready
    /\ \E o \in remove_dir(Self, id) : Apply(o, supplied)

RemoveFile(id) ==
    /\ Ready
    /\ Apply(remove_file(Self, id), supplied)

\* Archive::close (flush, hand the stream back) followed by Archive::open on
\* that stream.
Reopened(o) ==
          /\ result' = o.st
          /\ nops' = nops + 1
          /\ all_ok' = (all_ok /\ o.st = "ok")
          /\ supplied' = supplied
          /\ UNCHANGED <<reader, last_read, units>>
          /\ IF o.st = "ok"
             THEN /\ status' = "open"
                  /\ source' = o.a.source
                  /\ file_segments' = o.a.file_segments
                  /\ dirs' = o.a.dirs
                  /\ files' = o.a.files
                  /\ dirs_content' = o.a.dirs_content
                  /\ coverage' = o.a.coverage
             ELSE /\ status' = IF o.st = "panic" THEN "panicked" ELSE "open_failed"
                  /\ UNCHANGED <<source, file_segments, dirs, files, dirs_content, coverage>>

CloseOpen ==
    /\ Ready
    /\ Reopened(ArchiveOpen(source))

\* A caller makes at most MaxOps calls that change the state.
Budget == nops < MaxOps

Next ==
    \/ \E p \in {Root} \cup Ids, n \in Names, t \in CreateTimes :
            Budget /\ CreateDir(p, n, t)
    \/ \E p \in {Root} \cup Ids, n \in Names, t \in CreateTimes, c \in Contents :
            Budget /\ CreateFile(p, n, t, c)
    \/ \E id \in Ids, t \in ReplaceTimes, c \in Contents :
            Budget /\ ReplaceFileContent(id, t, c)
    \/ \E id \in Ids, n \in Names : Budget /\ RenameDirectory(id, n)
    \/ \E id \in Ids, n \in Names : Budget /\ RenameFile(id, n)
    \/ \E id \in Ids : Budget /\ RemoveDir(id)
    \/ \E id \in Ids : Budget /\ RemoveFile(id)
    \/ Budget /\ CloseOpen

Spec == Init /\ [][Next]_vars

\* A second workload, explored deeper: a caller that only creates and removes
\* items and reopens the archive, gives each new item a name never used
\* before, and puts items in the root or in directory 1.
MaxDeepOps == 7
DeepNames == <<"a", "b", "c", "d", "e", "f", "g", "h", "i", "j">>
DeepParents == {Root, 1}
DeepContents == {<<5>>, <<6, 7>>}
DeepBudget == nops < MaxDeepOps

NextDeep ==
    \/ \E p \in DeepParents : DeepBudget /\ CreateDir(p, DeepNames[nops + 1], T1)
    \/ \E p \in DeepParents, c \in DeepContents :
            DeepBudget /\ CreateFile(p, DeepNames[nops + 1], T1, c)
    \/ \E id \in 1..MaxDeepOps : DeepBudget /\ RemoveDir(id)
    \/ \E id \in 1..MaxDeepOps : DeepBudget /\ RemoveFile(id)
    \/ DeepBudget /\ CloseOpen

SpecDeep == Init /\ [][NextDeep]_vars

\* A third workload, one call longer: the same caller keeping every item in
\* the root.
MaxFlatOps == 8
FlatBudget == nops < MaxFlatOps

NextFlat ==
    \/ FlatBudget /\ CreateDir(Root, DeepNames[nops + 1], T1)
    \/ \E c \in DeepContents : FlatBudget /\ CreateFile(Root, DeepNames[nops + 1], T1, c)
    \/ \E id \in 1..MaxFlatOps : FlatBudget /\ RemoveDir(id)
    \/ \E id \in 1..MaxFlatOps : FlatBudget /\ RemoveFile(id)
    \/ FlatBudget /\ CloseOpen

SpecFlat == Init /\ [][NextFlat]_vars

\* ============================================================ properties
\* The archive is usable and every call so far returned Ok.
Clean == status = "open" /\ all_ok

\* What dirs() and files() report: kind, id, name and parent of every entry.
EntrySet(a) ==
    {[kind |-> "dir", id |-> d, name |-> a.dirs[d].name,
      parent_dir |-> a.dirs[d].parent_dir] : d \in DOMAIN a.dirs}
    \cup
    {[kind |-> "file", id |-> f, name |-> a.files[f].name,
      parent_dir |-> a.files[f].parent_dir] : f \in DOMAIN a.files}

\* The bytes of src in [addr, addr + Len(content)) are content.
ContentAt(src, addr, content) ==
    /\ addr + Len(content) <= src.len
    /\ \A i \in 1..Len(content) :
          /\ HasCell(src, addr + i - 1, "byte")
          /\ src.cells[addr + i - 1].byte = content[i]

\* Span of every segment of the chain, and content range of a file.
SegmentSpans(a) ==
    {[start |-> segment_addr(a, i), len |-> encoded_len(a.file_segments[i])]
        : i \in 1..Len(a.file_segments)}
HeaderSpan == [start |-> 0, len |-> HEADER_SIZE]
ContentRange(file) == [start |-> file.content_addr, len |-> file.content_len]
Disjoint(r1, r2) == r1.start + r1.len <= r2.start \/ r2.start + r2.len <= r1.start

\* Slots of a kind in the segment cache, as <<segment, slot>> positions
\* (both counted from 1), and the positions that hold the entry id.
Slots(a, kind, s) ==
    IF kind = "dir" THEN a.file_segments[s].dirs ELSE a.file_segments[s].files
Index(a, kind) == IF kind = "dir" THEN a.dirs ELSE a.files
SlotPositions(a, kind) ==
    UNION {{<<s, i>> : i \in 1..Len(Slots(a, kind, s))} : s \in 1..Len(a.file_segments)}
HolderPositions(a, kind, ids) ==
    {p \in SlotPositions(a, kind) :
        /\ IsSome(Slots(a, kind, p[1])[p[2]])
        /\ Slots(a, kind, p[1])[p[2]][1].id \in ids}
SlotAddr(a, kind, p) == SegmentEntry(a, kind, p[1], p[2] - 1).entry_addr
ZeroEntry(kind) == IF kind = "dir" THEN ZeroDirectoryEntry ELSE ZeroFileEntry

\* The stream of a with the given slots zeroed.
RECURSIVE ZeroSlots(_, _, _, _)
ZeroSlots(src, a, kind, ps) ==
    IF ps = {} THEN src
    ELSE LET p == CHOOSE q \in ps : TRUE
         IN ZeroSlots(WriteAt(src, SlotAddr(a, kind, p), ZeroEntry(kind)), a, kind, ps \ {p})

\* The segment cache of a with the entries of the given ids taken out.
CacheWithout(a, rdirs, rfiles) ==
    [s \in 1..Len(a.file_segments) |->
        [a.file_segments[s] EXCEPT
            !.dirs = [i \in 1..Len(@) |->
                        IF IsSome(@[i]) /\ @[i][1].id \in rdirs THEN None ELSE @[i]],
            !.files = [i \in 1..Len(@) |->
                        IF IsSome(@[i]) /\ @[i][1].id \in rfiles THEN None ELSE @[i]]]]

Restrict(f, keep) == [x \in (DOMAIN f) \cap keep |-> f[x]]

\* A directory and its transitive descendant directories, by the index.
RECURSIVE SubtreeDirs(_, _)
SubtreeDirs(a, S) ==
    LET next == S \cup {d \in DOMAIN a.dirs : a.dirs[d].parent_dir \in S}
    IN IF next = S THEN S ELSE SubtreeDirs(a, next)
SubtreeFiles(a, S) == {f \in DOMAIN a.files : a.files[f].parent_dir \in S}

\* ---------------------------------------------------------------- claims
\* C1: after any sequence of successful operations, close then open succeeds
\* and reports exactly the entries of the index before close: the same ids,
\* each with the same kind, name and parent_dir.
C1_RoundTrip ==
    Clean => LET o == ArchiveOpen(source)
             IN o.st = "ok" /\ EntrySet(o.a) = EntrySet(Self)

\* C2: in every state reached by successful operations, the stream bytes in
\* [content_addr, content_addr + content_len) of every file of the index are
\* the content last supplied for it, and its checksum is that content's.
C2_ContentIntegrity ==
    Clean => \A f \in DOMAIN files :
                /\ f \in DOMAIN supplied
                /\ files[f].content_len = Len(supplied[f])
                /\ ContentAt(source, files[f].content_addr, supplied[f])
                /\ files[f].sha3_checksum = Sha3(supplied[f])

C4_RangesDisjoint ==
    Clean => \A f \in DOMAIN files :
                /\ files[f].content_addr + files[f].content_len <= source.len
                /\ files[f].content_len > 0 =>
                      /\ Disjoint(ContentRange(files[f]), HeaderSpan)
                      /\ \A seg \in SegmentSpans(Self) :
                            Disjoint(ContentRange(files[f]), seg)
                      /\ \A g \in DOMAIN files :
                            (g # f /\ files[g].content_len > 0) =>
                                Disjoint(ContentRange(files[f]), ContentRange(files[g]))

\* C5: in every state reached by successful operations, every id is non-zero
\* and held by one entry only, of either kind, in the index and in the
\* occupied slots; a new item gets id 1 in an empty archive and otherwise one
\* more than the largest id present.
C5_IdUnique ==
    Clean =>
       /\ \A d \in DOMAIN dirs : d # 0 /\ dirs[d].id = d
       /\ \A f \in DOMAIN files : f # 0 /\ files[f].id = f
       /\ (DOMAIN dirs) \cap (DOMAIN files) = {}
       /\ \A id \in (DOMAIN dirs) \cup (DOMAIN files) :
             Cardinality(HolderPositions(Self, "dir", {id}))
               + Cardinality(HolderPositions(Self, "file", {id})) <= 1
       /\ \A parent \in DOMAIN dirs_content, n \in Names :
             LET ids == (DOMAIN dirs) \cup (DOMAIN files)
                 expected == IF ids = {} THEN 1 ELSE Max(ids) + 1
                 od == create_dir(Self, parent, n, T1)
                 of == create_file(Self, parent, n, T1, <<5>>)
             IN /\ od.st = "ok" => od.ret = expected
                /\ of.st = "ok" => of.ret = expected

\* C6: in every state reached by successful operations, close and open
\* included, the parent_dir of every directory and file is root or the id of
\* a directory of the index.
C6_ParentValid ==
    Clean => /\ \A d \in DOMAIN dirs :
                   dirs[d].parent_dir = Root \/ dirs[d].parent_dir \in DOMAIN dirs
             /\ \A f \in DOMAIN files :
                   files[f].parent_dir = Root \/ files[f].parent_dir \in DOMAIN dirs

\* C7: rename_directory(id, n) and rename_file(id, n), for an existing id and
\* a name n free in its parent, succeed whatever the slot occupancy; the only
\* bytes written are the name region (slot address + 16) of the slot that
\* holds the entry; the entry's name changes in the index and in the segment
\* cache, and nothing else changes.
C7_RenameFrame ==
    Clean =>
      \A kind \in {"dir", "file"} : \A id \in DOMAIN Index(Self, kind) : \A n \in Names :
        (/\ Index(Self, kind)[id].parent_dir \in DOMAIN dirs_content
         /\ n \notin dirs_content[Index(Self, kind)[id].parent_dir].names)
        =>
        LET o == rename_item(Self, kind, id, n)
            holders == HolderPositions(Self, kind, {id})
        IN /\ o.st = "ok"
           /\ \E p \in holders :
                /\ holders = {p}
                /\ o.a.source = WriteAt(source, SlotAddr(Self, kind, p) + 16, <<NameCell(n)>>)
                /\ Slots(o.a, kind, p[1])[p[2]] =
                      Some([Index(Self, kind)[id] EXCEPT !.name = n])
                /\ \A q \in (SlotPositions(Self, "dir") \cup SlotPositions(Self, "file")) :
                      \A k \in {"dir", "file"} :
                         (q \in SlotPositions(Self, k) /\ ~(k = kind /\ q = p))
                            => Slots(o.a, k, q[1])[q[2]] = Slots(Self, k, q[1])[q[2]]
           /\ Index(o.a, kind) = [Index(Self, kind) EXCEPT ![id].name = n]
           /\ kind = "dir" => o.a.files = files
           /\ kind = "file" => o.a.dirs = dirs
           /\ o.a.coverage = coverage

\* C8: remove_file(id) on an existing file succeeds whatever the slot
\* occupancy, zeroes exactly the 328-byte slot that holds the file, takes the
\* file out of the index, the segment cache and its parent's files and names,
\* frees its content range, returns the removed entry and changes nothing else.
C8_RemoveFileFrame ==
    Clean =>
      \A id \in DOMAIN files :
        LET o == remove_file(Self, id)
            file == files[id]
            holders == HolderPositions(Self, "file", {id})
        IN /\ o.st = "ok"
           /\ o.ret = file
           /\ Cardinality(holders) = 1
           /\ o.a.source = ZeroSlots(source, Self, "file", holders)
           /\ o.a.file_segments = CacheWithout(Self, {}, {id})
           /\ o.a.files = MapDel(files, id)
           /\ o.a.dirs = dirs
           /\ file.parent_dir \in DOMAIN dirs_content
           /\ o.a.dirs_content =
                 [dirs_content EXCEPT ![file.parent_dir].files = @ \ {id},
                                      ![file.parent_dir].names = @ \ {file.name}]
           /\ o.a.coverage =
                 [coverage EXCEPT !.segments =
                     {seg \in @ : file.content_len = 0 \/ seg # ContentRange(file)}]

\* C9: remove_dir(id) on an existing directory succeeds, in whatever order it
\* visits the children: the directory and all its transitive descendants leave
\* the index, the segment cache and the disk slots, the content ranges of the
\* removed files are freed, the child sets of the removed directories are
\* dropped, and nothing outside the subtree changes.
C9_RemoveDirSubtree ==
    Clean =>
      \A id \in DOMAIN dirs : \A o \in remove_dir(Self, id) :
        LET sub_dirs == SubtreeDirs(Self, {id})
            sub_files == SubtreeFiles(Self, sub_dirs)
            dir == dirs[id]
        IN /\ o.st = "ok"
           /\ o.ret = dir
           /\ o.a.dirs = Restrict(dirs, (DOMAIN dirs) \ sub_dirs)
           /\ o.a.files = Restrict(files, (DOMAIN files) \ sub_files)
           /\ o.a.file_segments = CacheWithout(Self, sub_dirs, sub_files)
           /\ o.a.source =
                 ZeroSlots(ZeroSlots(source, Self, "dir",
                                     HolderPositions(Self, "dir", sub_dirs)),
                           Self, "file", HolderPositions(Self, "file", sub_files))
           /\ dir.parent_dir \in DOMAIN dirs_content
           /\ o.a.dirs_content =
                 Restrict([dirs_content EXCEPT ![dir.parent_dir].dirs = @ \ {id},
                                               ![dir.parent_dir].names = @ \ {dir.name}],
                          (DOMAIN dirs_content) \ sub_dirs)
           /\ o.a.coverage =
                 [coverage EXCEPT !.segments =
                     {seg \in @ : \A f \in sub_files :
                         files[f].content_len = 0 \/ seg # ContentRange(files[f])}]

\* C10: replace_file_content(id, t, c) on an existing file succeeds and leaves
\* id, name and parent_dir as they were; modif_time is t, content_len the
\* length of c and sha3_checksum the checksum of c, in the index and in what
\* the on-disk slot of that file decodes to.
C10_ReplaceFrame ==
    Clean =>
      \A id \in DOMAIN files : \A t \in ReplaceTimes : \A c \in Contents :
        LET o == replace_file_content(Self, id, t, c)
            holders == HolderPositions(Self, "file", {id})
            wanted == [files[id] EXCEPT !.modif_time = t,
                                        !.content_len = Len(c),
                                        !.sha3_checksum = Sha3(c),
                                        !.content_addr = o.a.files[id].content_addr]
        IN /\ o.st = "ok"
           /\ id \in DOMAIN o.a.files
           /\ o.a.files[id] = wanted
           /\ \E p \in holders :
                 FileDecode(o.a.source, SlotAddr(Self, "file", p)).entry = Some(wanted)

\* C11: whenever create_dir, create_file or replace_file_content succeeds with
\* modification time t, closing and reopening the archive succeeds and
\* get_dir / get_file of that item reports modif_time = t and, for a file,
\* content_len equal to the length of the content last written.
C11_MetadataPersist ==
    Clean =>
      /\ \A p \in DOMAIN dirs_content, n \in Names, t \in {T1, T2} :
            LET o == create_dir(Self, p, n, t)
                r == ArchiveOpen(o.a.source)
            IN o.st = "ok" =>
                  /\ r.st = "ok"
                  /\ o.ret \in DOMAIN r.a.dirs
                  /\ r.a.dirs[o.ret].modif_time = t
      /\ \A p \in DOMAIN dirs_content, n \in Names, t \in {T1, T2}, c \in Contents :
            LET o == create_file(Self, p, n, t, c)
                r == ArchiveOpen(o.a.source)
            IN o.st = "ok" =>
                  /\ r.st = "ok"
                  /\ o.ret \in DOMAIN r.a.files
                  /\ r.a.files[o.ret].modif_time = t
                  /\ r.a.files[o.ret].content_len = Len(c)
      /\ \A id \in DOMAIN files, t \in {T1, T2}, c \in Contents :
            LET o == replace_file_content(Self, id, t, c)
                r == ArchiveOpen(o.a.source)
            IN o.st = "ok" =>
                  /\ r.st = "ok"
                  /\ id \in DOMAIN r.a.files
                  /\ r.a.files[id].modif_time = t
                  /\ r.a.files[id].content_len = Len(c)

\* The name n is used by an entry of the index under parent p, other than
\* the entry (kind, id).
UsedBySibling(a, p, n, kind, id) ==
    \E e \in EntrySet(a) :
        e.parent_dir = p /\ e.name = n /\ ~(e.kind = kind /\ e.id = id)

\* C12: create_dir and create_file with a parent that is neither root nor a
\* directory of the index, or with a name used by an entry under that parent,
\* and rename_directory and rename_file to a name used by a sibling, return
\* an error and leave stream, index, segment list, child sets and coverage
\* map as they were.
C12_RejectedNoOp ==
    Clean =>
      /\ \A p \in {Root} \cup Ids, n \in Names :
            ((p # Root /\ p \notin DOMAIN dirs) \/ UsedBySibling(Self, p, n, "none", 0))
            => /\ create_dir(Self, p, n, T1) = Outcome("err", Self, 0)
               /\ \A c \in Contents :
                     create_file(Self, p, n, T1, c) = Outcome("err", Self, 0)
      /\ \A kind \in {"dir", "file"} : \A id \in DOMAIN Index(Self, kind) : \A n \in Names :
            UsedBySibling(Self, Index(Self, kind)[id].parent_dir, n, kind, id)
            => rename_item(Self, kind, id, n) = Outcome("err", Self, 0)

\* C13: when rename_directory(id, n) or rename_file(id, n) succeeds, a second
\* call with the same id and name succeeds too and leaves the archive as the
\* first call left it.
C13_RenameIdempotent ==
    Clean =>
      \A kind \in {"dir", "file"} : \A id \in DOMAIN Index(Self, kind) : \A n \in Names :
        LET o1 == rename_item(Self, kind, id, n)
            o2 == rename_item(o1.a, kind, id, n)
        IN o1.st = "ok" => (o2.st = "ok" /\ o2.a = o1.a)

\* C14: after an item is removed, a creation returns an id that no item held
\* before the removal; in particular, after remove_file(id), creating a file
\* with the same name and parent succeeds with an id other than id.
C14_IdsNotReused ==
    Clean =>
      LET held == (DOMAIN dirs) \cup (DOMAIN files)
      IN /\ \A id \in DOMAIN files : \A c \in Contents :
               LET o == remove_file(Self, id)
                   n == create_file(o.a, files[id].parent_dir, files[id].name, T1, c)
               IN o.st = "ok" => (n.st = "ok" /\ n.ret \notin held)
         /\ \A id \in DOMAIN dirs : \A o \in remove_dir(Self, id) :
               LET n == create_dir(o.a, dirs[id].parent_dir, dirs[id].name, T1)
               IN o.st = "ok" => (n.st = "ok" /\ n.ret \notin held)

\* ------------------------------------------------- opening a given stream
\* A fourth workload: Archive::open on a stream that was not written by this
\* session. The stream holds a valid header and one segment of two directory
\* slots and two file slots; every slot is empty or holds an entry that
\* decodes correctly, with any id among CraftIds and any parent among
\* these and the root. The files are empty, but for one whose content range
\* is given as two bytes inside the segment.
CraftIds == {1, 2}
CraftDirSlots ==
    {None} \cup
    {Some([id |-> i, name |-> n, parent_dir |-> p, modif_time |-> T1])
        : i \in CraftIds, n \in Names, p \in {Root} \cup CraftIds}
CraftFileSlots ==
    {None} \cup
    {Some([id |-> i, parent_dir |-> p, name |-> n, modif_time |-> T1,
           content_addr |-> HEADER_SIZE, content_len |-> 0,
           sha3_checksum |-> Sha3(<<>>)])
        : i \in CraftIds, n \in Names, p \in {Root} \cup CraftIds}
    \cup
    {Some([id |-> 1, parent_dir |-> Root, name |-> "a", modif_time |-> T1,
           content_addr |-> HEADER_SIZE + 16, content_len |-> 2,
           sha3_checksum |-> Sha3(<<5, 6>>)])}
CraftedSegments ==
    {[next_segment_addr |-> 0, dirs |-> <<d1, d2>>, files |-> <<f1, f2>>]
        : d1 \in CraftDirSlots, d2 \in CraftDirSlots,
          f1 \in CraftFileSlots, f2 \in CraftFileSlots}
CraftedStream(segment) ==
    WriteAt(WriteAt(EmptySource, 0, <<HeaderCell>>),
            HEADER_SIZE, FileTableSegmentEncode(segment))

InitOpen ==
    /\ \E segment \in CraftedSegments : source = CraftedStream(segment)
    /\ file_segments = <<>>
    /\ dirs = EmptyMap
    /\ files = EmptyMap
    /\ dirs_content = EmptyMap
    /\ coverage = CoverageNew(0)
    /\ status = "closed"
    /\ result = "ok"
    /\ nops = 0
    /\ all_ok = TRUE
    /\ supplied = EmptyMap
    /\ reader = None
    /\ last_read = NoRead(0)
    /\ NoUnit

\* Archive::open on the stream at hand.
OpenStream ==
    /\ status = "closed"
    /\ Reopened(ArchiveOpen(source))

SpecOpen == InitOpen /\ [][OpenStream]_vars

\* The occupied entries of the stream in the order open visits them.
StreamDirs(src) ==
    LET chain == DecodeChain(src, HEADER_SIZE)
    IN FlattenSeq(FlattenSeq([i \in 1..Len(chain.segs) |-> chain.segs[i][2].dirs]))
StreamFiles(src) ==
    LET chain == DecodeChain(src, HEADER_SIZE)
    IN FlattenSeq(FlattenSeq([i \in 1..Len(chain.segs) |-> chain.segs[i][2].files]))

\* Violations in a sequence of entries: positions whose directory id was
\* already seen, and positions whose (parent, name) was already seen.
RepeatedIds(entries) ==
    {i \in 1..Len(entries) : \E j \in 1..(i - 1) : entries[j].id = entries[i].id}
RepeatedNames(entries) ==
    {i \in 1..Len(entries) :
        \E j \in 1..(i - 1) : /\ entries[j].parent_dir = entries[i].parent_dir
                              /\ entries[j].name = entries[i].name}

\* C17: when the stream to open decodes correctly and holds two directories
\* with the same id, or two entries with the same name under one parent,
\* Archive::open returns the list of FileTableCorrectnessError, with one
\* error for every repeated directory id and one for every repeated name.
C17_IntegrityBatch ==
    status = "closed" =>
      LET o == ArchiveOpen(source)
          d == StreamDirs(source)
          all == d \o StreamFiles(source)
          count == Cardinality(RepeatedIds(d)) + Cardinality(RepeatedNames(all))
      IN count > 0 =>
            /\ o.st = "err"
            /\ Len(o.ret) = count
            /\ \A i \in RepeatedIds(d) :
                  \E k \in 1..Len(o.ret) :
                      o.ret[k] = [kind |-> "DuplicateDirectoryId",
                                  id |-> d[i].id, name |-> d[i].name]
            /\ \A i \in RepeatedNames(all) :
                  \E k \in 1..Len(o.ret) :
                      o.ret[k] = [kind |-> "DuplicateItemInDirName",
                                  id |-> all[i].id, name |-> all[i].name]

\* C18: when two occupied entries of the stream to open have the same id
\* (two directories, two files, or a directory and a file, under any
\* parents), Archive::open does not return an archive.
C18_DuplicateIdsRejected ==
    status = "closed" =>
      LET all == StreamDirs(source) \o StreamFiles(source)
      IN RepeatedIds(all) # {} => ArchiveOpen(source).st # "ok"

\* ------------------------------------------------ create / remove pairs
\* A fifth workload: a caller that creates a file in the root and removes it
\* again, any number of times, and may close and reopen the archive between
\* two pairs.
MaxPairOps == 8

NextPairs ==
    \/ \E n \in Names, c \in Contents :
            nops < MaxPairOps /\ DOMAIN files = {} /\ CreateFile(Root, n, T1, c)
    \/ \E id \in Ids : nops < MaxPairOps /\ id \in DOMAIN files /\ RemoveFile(id)
    \/ nops < MaxPairOps /\ DOMAIN files = {} /\ CloseOpen

SpecPairs == Init /\ [][NextPairs]_vars

\* Archive::read_dir: the entries it yields (child directories, then child
\* files), as a set; ok is FALSE for an unknown directory.
read_dir(a, id) ==
    IF id \notin DOMAIN a.dirs_content THEN [ok |-> FALSE, items |-> {}]
    ELSE [ok |-> TRUE,
          items |-> {[kind |-> "dir", entry |-> a.dirs[d]] : d \in a.dirs_content[id].dirs}
                    \cup {[kind |-> "file", entry |-> a.files[f]]
                            : f \in a.dirs_content[id].files}]

\* C20: after create, and after any number of create_file-then-remove_file
\* pairs, closing and reopening the archive succeeds and the reopened archive
\* has no directory and no file, and read_dir(root) yields nothing.
C20_EmptyRoundTrip ==
    (Clean /\ DOMAIN files = {}) =>
        LET o == ArchiveOpen(source)
        IN /\ o.st = "ok"
           /\ DOMAIN o.a.dirs = {}
           /\ DOMAIN o.a.files = {}
           /\ read_dir(o.a, Root) = [ok |-> TRUE, items |-> {}]

\* C20 witness: the budget of calls is spent on pairs and reopenings, the
\* archive is empty again and the stream has grown past the first segment.
C20_Witness ==
    /\ Clean
    /\ nops = MaxPairOps
    /\ DOMAIN files = {}
    /\ DOMAIN dirs = {}
    /\ source.len > HEADER_SIZE + encoded_len(file_segments[1])
    /\ ArchiveOpen(source).st = "ok"

\* ------------------------------------------------------- reading files
\* A sixth workload: a caller that writes files in the root, may have a
\* content byte altered in the stream while the archive is closed, then
\* reads files through FileReader with buffers of BufLens bytes.
MaxReadOps == 3
MaxReadCalls == 4
BufLens == {0, 1, 2, 3}

\* Archive::read_file(id) returning Ok: the caller holds the reader (a reader
\* held before is dropped).
ReadFile(id) ==
    /\ status = "open"
    /\ IsSome(read_file(Self, id))
    /\ reader' = read_file(Self, id)
    /\ last_read' = NoRead(id)
    /\ UNCHANGED <<source, file_segments, dirs, files, dirs_content, coverage,
                   status, result, nops, all_ok, supplied, units>>

\* FileReader::read with a buffer of buf_len bytes.
Read(buf_len) ==
    /\ IsSome(reader)
    /\ last_read.calls < MaxReadCalls
    /\ LET o == FileReaderRead(reader[1], source, buf_len)
       IN /\ reader' = Some(o.r)
          /\ last_read' = [st |-> o.st, n |-> o.n, compared |-> o.compared,
                           calls |-> last_read.calls + 1, buf_len |-> buf_len,
                           pos_before |-> reader[1].pos, file |-> last_read.file]
    /\ UNCHANGED <<source, file_segments, dirs, files, dirs_content, coverage,
                   status, result, nops, all_ok, supplied, units>>

\* Archive::close, byte i of the content of file id altered in the stream,
\* Archive::open.
Tamper(id, i) ==
    /\ Ready
    /\ id \in DOMAIN files
    /\ i < files[id].content_len
    /\ ByteAt(source, files[id].content_addr + i) # -1
    /\ Reopened(ArchiveOpen(
          WriteAt(source, files[id].content_addr + i,
                  <<ByteCell(ByteAt(source, files[id].content_addr + i) + 1)>>)))

NextRead ==
    \/ \E n \in Names, c \in Contents : nops < MaxReadOps /\ CreateFile(Root, n, T1, c)
    \/ \E id \in Ids, c \in Contents : nops < MaxReadOps /\ ReplaceFileContent(id, T2, c)
    \/ \E id \in Ids, i \in BufLens : nops < MaxReadOps /\ Tamper(id, i)
    \/ \E id \in Ids : ReadFile(id)
    \/ \E b \in BufLens : Read(b)

SpecRead == Init /\ [][NextRead]_vars

\* The content bytes of the stream in the range the reader r covers.
RangeBytes(src, r) ==
    [i \in 1..r.len |-> ByteAt(src, r.position - r.pos + i - 1)]

\* C15 as stated: the checksum is compared only by the read that delivers the
\* final byte, or by the first read of a zero-length file; that read fails
\* exactly when the hash of the delivered bytes differs from the recorded
\* checksum; a read that leaves bytes remaining does not fail because of the
\* checksum; reading an altered content to the end fails.
C15_ChecksumOnlyFinal ==
    (IsSome(reader) /\ last_read.calls > 0) =>
      LET r == reader[1]
      IN /\ last_read.compared <=>
               \/ (last_read.n > 0 /\ r.pos = r.len)
               \/ (r.len = 0 /\ last_read.calls = 1)
         /\ last_read.compared =>
               (last_read.st = "err" <=> Sha3(r.pending_checksum) # r.expected_checksum)
         /\ (r.pos < r.len /\ last_read.st = "err") =>
               r.position + Min({last_read.buf_len, r.len - r.pos}) > source.len
         /\ (r.pos = r.len /\ Sha3(RangeBytes(source, r)) # r.expected_checksum) =>
               last_read.st = "err"

\* C15 amended: the checksum is compared by every read that ends with pos
\* equal to the length of the file, that is by the read that delivers the
\* final byte, by every read made after it, and by every read of a
\* zero-length file, and by no other read; such a read fails exactly when the
\* hash of the delivered bytes differs from the recorded checksum; a read
\* that leaves bytes remaining fails only when the stream ends too early;
\* reading an altered content to the end fails.
C15_ChecksumVerdict ==
    (IsSome(reader) /\ last_read.calls > 0) =>
      LET r == reader[1]
      IN /\ last_read.compared <=> (r.pos = r.len)
         /\ last_read.compared =>
               (last_read.st = "err" <=> Sha3(r.pending_checksum) # r.expected_checksum)
         /\ (r.pos < r.len /\ last_read.st = "err") =>
               r.position + Min({last_read.buf_len, r.len - r.pos}) > source.len
         /\ (r.pos = r.len /\ Sha3(RangeBytes(source, r)) # r.expected_checksum) =>
               last_read.st = "err"

\* C15 witness: a file of two bytes, one of them altered, was read in two
\* calls; the first returned normally, the second delivered the final byte
\* and failed on the checksum.
C15_Witness ==
    /\ IsSome(reader)
    /\ reader[1].len = 2
    /\ reader[1].pos = 2
    /\ last_read.calls = 2
    /\ last_read.n = 1
    /\ last_read.compared
    /\ last_read.st = "err"

\* C16: a read with a buffer of b bytes delivers min(b, content_len - pos)
\* bytes, never more; the delivered bytes are those of the stream from
\* content_addr on, in order; pos never exceeds content_len and counts the
\* bytes delivered, so that a read to the end delivers content_len bytes;
\* a read made when pos equals content_len delivers nothing; a read of a
\* zero-length file delivers nothing and compares the checksum.
C16_ByteAccounting ==
    IsSome(reader) =>
      LET r == reader[1]
          file == files[last_read.file]
      IN /\ last_read.file \in DOMAIN files
         /\ r.len = file.content_len
         /\ r.pos <= r.len
         /\ r.position = file.content_addr + r.pos
         /\ Len(r.pending_checksum) = r.pos
         /\ \A i \in 1..r.pos :
               /\ HasCell(source, file.content_addr + i - 1, "byte")
               /\ r.pending_checksum[i] = source.cells[file.content_addr + i - 1].byte
         /\ last_read.calls > 0 =>
               /\ last_read.n <= Min({last_read.buf_len, r.len - last_read.pos_before})
               /\ last_read.st = "ok" =>
                     last_read.n = Min({last_read.buf_len, r.len - last_read.pos_before})
               /\ r.pos = last_read.pos_before + last_read.n
               /\ last_read.pos_before = r.len => last_read.n = 0
               /\ r.len = 0 => (last_read.n = 0 /\ last_read.compared)

\* C16 witness: the second of two files, two bytes long, was read to its end
\* in two calls with a buffer larger than what remained, and a further read
\* delivered nothing.
C16_Witness ==
    /\ IsSome(reader)
    /\ last_read.file = 2
    /\ reader[1].len = 2
    /\ reader[1].pos = 2
    /\ last_read.calls = 3
    /\ last_read.buf_len = 3
    /\ last_read.pos_before = 2
    /\ last_read.n = 0
    /\ last_read.st = "ok"

\* ------------------------------------------------------------- traversal
\* The orders in which a HashSet may be iterated: every arrangement of S.
RECURSIVE Arrangements(_)
Arrangements(S) ==
    IF S = {} THEN {<<>>}
    ELSE UNION {{<<x>> \o p : p \in Arrangements(S \ {x})} : x \in S}

\* Ord of ItemName (byte order of the string): the rank of a name.
NameRank(name) == CHOOSE i \in 1..Len(DeepNames) : DeepNames[i] = name

\* The Vec of children ids that ArchiveIter walks: the ids in the order of the
\* HashSet, then, if ordered, sort_by_key on the name (a stable sort).
ChildOrders(ids, index, ordered) ==
    {p \in Arrangements(ids) :
        ordered => \A i \in 1..Len(p) : \A j \in (i + 1)..Len(p) :
                      NameRank(index[p[i]].name) <= NameRank(index[p[j]].name)}

\* ArchiveIter: the sequences of items [kind, id] that the iterator built by
\* new_for_dir(archive, dir_id, ordered) may yield until it returns None.
\* IterDirs is the part for the child directories p still to visit: each is
\* yielded, then walked by its own iterator.
RECURSIVE ArchiveIter(_, _, _)
RECURSIVE IterDirs(_, _, _)
IterDirs(a, p, ordered) ==
    IF p = <<>> THEN {<<>>}
    ELSE {<<[kind |-> "dir", id |-> Head(p)]>> \o sub \o rest :
            sub \in ArchiveIter(a, Head(p), ordered),
            rest \in IterDirs(a, Tail(p), ordered)}

ArchiveIter(a, dir_id, ordered) ==
    {ds \o [i \in 1..Len(fs) |-> [kind |-> "file", id |-> fs[i]]] :
        ds \in UNION {IterDirs(a, p, ordered)
                        : p \in ChildOrders(a.dirs_content[dir_id].dirs, a.dirs, ordered)},
        fs \in ChildOrders(a.dirs_content[dir_id].files, a.files, ordered)}

\* C19: every sequence that unordered_iter or ordered_iter may yield holds
\* each directory and each file of the archive exactly once; an item comes
\* after its parent directory; a directory is immediately followed by all
\* the items of its subtree; among the children of one parent the
\* directories come before the files; with ordered_iter, sibling directories
\* and sibling files are each in ascending name order.
C19_Traversal ==
    Clean =>
      \A ordered \in BOOLEAN : \A t \in ArchiveIter(Self, Root, ordered) :
        LET item(i) == Index(Self, t[i].kind)[t[i].id]
            at(kind, id) == {i \in 1..Len(t) : t[i] = [kind |-> kind, id |-> id]}
        IN /\ \A d \in DOMAIN dirs : Cardinality(at("dir", d)) = 1
           /\ \A f \in DOMAIN files : Cardinality(at("file", f)) = 1
           /\ Len(t) = Cardinality(DOMAIN dirs) + Cardinality(DOMAIN files)
           /\ \A i \in 1..Len(t) :
                 /\ t[i].id \in DOMAIN Index(Self, t[i].kind)
                 /\ item(i).parent_dir # Root =>
                       \E j \in 1..(i - 1) :
                           t[j] = [kind |-> "dir", id |-> item(i).parent_dir]
                 /\ t[i].kind = "dir" =>
                       LET below == SubtreeDirs(Self, {t[i].id})
                           size == Cardinality(below) - 1
                                   + Cardinality(SubtreeFiles(Self, below))
                       IN /\ i + size <= Len(t)
                          /\ \A j \in (i + 1)..(i + size) :
                                item(j).parent_dir \in below
           /\ \A i \in 1..Len(t) : \A j \in 1..Len(t) :
                 (item(i).parent_dir = item(j).parent_dir /\ i < j) =>
                    /\ ~(t[i].kind = "file" /\ t[j].kind = "dir")
                    /\ (ordered /\ t[i].kind = t[j].kind) =>
                          NameRank(item(i).name) < NameRank(item(j).name)

MaxCoverLen == 7
CoverLens == {0, 1, 2}

InitCoverage ==
    /\ \E len \in 0..MaxCoverLen : coverage = CoverageNew(len)
    /\ source = EmptySource
    /\ file_segments = <<>>
    /\ dirs = EmptyMap
    /\ files = EmptyMap
    /\ dirs_content = EmptyMap
    /\ status = "open"
    /\ result = "ok"
    /\ nops = 0
    /\ all_ok = TRUE
    /\ supplied = EmptyMap
    /\ reader = None
    /\ last_read = NoRead(0)
    /\ NoUnit

\* The state after a call on the map that gave r.
CoverageCall(r) ==
    /\ status = "open"
    /\ status' = IF r.ok THEN "open" ELSE "panicked"
    /\ result' = IF r.ok THEN "ok" ELSE "panic"
    /\ coverage' = IF r.ok THEN r.coverage ELSE coverage
    /\ UNCHANGED <<source, file_segments, dirs, files, dirs_content, nops, all_ok,
                   supplied, reader, last_read, units>>

MarkAsUsed(start, len) == CoverageCall(mark_as_used(coverage, start, len))
MarkAsFree(start, len) ==
    CoverageCall(mark_as_free(coverage, [start |-> start, len |-> len]))
GrowTo(new_len) == CoverageCall(grow_to(coverage, new_len))

NextCoverage ==
    \/ \E start \in 0..MaxCoverLen, len \in CoverLens : MarkAsUsed(start, len)
    \/ \E start \in 0..MaxCoverLen, len \in CoverLens : MarkAsFree(start, len)
    \/ \E new_len \in 0..MaxCoverLen : GrowTo(new_len)

SpecCoverage == InitCoverage /\ [][NextCoverage]_vars

\* No two of the ranges share a byte.
PairwiseDisjoint(ranges) == \A r1, r2 \in ranges : r1 = r2 \/ Disjoint(r1, r2)
Covers(r, x) == r.start <= x /\ x < r.start + r.len

\* The zones are non-empty, lie in [0, len), come in ascending order with a
\* used byte between two of them, and hold exactly the bytes of [0, len) that
\* no used range holds: they are the maximal gaps.
MaximalGaps(cov, zones) ==
    /\ \A i \in 1..Len(zones) :
          zones[i].len > 0 /\ zones[i].start + zones[i].len <= cov.len
    /\ \A i \in 1..(Len(zones) - 1) :
          zones[i].start + zones[i].len < zones[i + 1].start
    /\ \A x \in 0..(cov.len - 1) :
          (\E i \in 1..Len(zones) : Covers(zones[i], x))
             <=> ~(\E s \in cov.segments : Covers(s, x))

\* C22 (as stated): for a coverage map of length L holding pairwise disjoint
\* used ranges, find_free_zones yields in ascending order exactly the maximal
\* non-empty gaps of [0, L), never a zero-length gap, and then ends.
C22_GapsOfAnyMap ==
    PairwiseDisjoint(coverage.segments)
        => MaximalGaps(coverage, find_free_zones(coverage))

\* C22 (amended): the same for a coverage map of length L whose pairwise
\* disjoint used ranges all start at or before L.
C22_GapsWithinLen ==
    (/\ PairwiseDisjoint(coverage.segments)
     /\ \A s \in coverage.segments : s.start <= coverage.len)
        => MaximalGaps(coverage, find_free_zones(coverage))

\* Two used ranges with a gap before, between and after them.
C22_Witness ==
    /\ PairwiseDisjoint(coverage.segments)
    /\ \A s \in coverage.segments : s.start <= coverage.len
    /\ Cardinality(coverage.segments) = 2
    /\ Len(find_free_zones(coverage)) = 3

\* C24: mark_as_used(start, len) with len > 0 fails its assertion whenever
\* [start, start + len) shares a byte with a used range, and otherwise inserts
\* the range without failing.
C24_RejectsOverlap ==
    status = "open" =>
      \A start \in 0..MaxCoverLen : \A len \in CoverLens \ {0} :
        LET r == mark_as_used(coverage, start, len)
            range == [start |-> start, len |-> len]
        IN IF \E s \in coverage.segments : ~Disjoint(s, range)
           THEN ~r.ok
           ELSE r.ok /\ r.coverage.segments = coverage.segments \cup {range}

\* C26: find_free_zone_for(capacity) is None exactly when no free zone has
\* length >= capacity; otherwise it is a free zone of minimal length among
\* those, and among the zones of that length the one of lowest start.
C26_BestFit ==
    \A capacity \in 0..(MaxCoverLen + 1) :
      LET zones == find_free_zones(coverage)
          fit == {i \in 1..Len(zones) : zones[i].len >= capacity}
          r == find_free_zone_for(coverage, capacity)
      IN /\ (r = None) <=> (fit = {})
         /\ fit # {} =>
              \E i \in fit :
                 /\ r = Some(zones[i])
                 /\ \A j \in fit :
                       \/ zones[i].len < zones[j].len
                       \/ /\ zones[i].len = zones[j].len
                          /\ zones[i].start <= zones[j].start

\* A shorter zone that does not fit, then two fitting zones of the same
\* length: the first of the two is returned.
C26_Witness ==
    /\ status = "open"
    /\ PairwiseDisjoint(coverage.segments)
    /\ LET zones == find_free_zones(coverage)
       IN /\ Len(zones) = 3
          /\ zones[1].len = 1
          /\ zones[2].len = 2
          /\ zones[3].len = 2
          /\ find_free_zone_for(coverage, 2) = Some(zones[2])

\* ------------------------------------------------- coverage of an archive
\* The ranges in use by the archive: the header, the span of every segment of
\* the chain and the content range of every indexed file that has content.
LiveRanges(a) ==
    {HeaderSpan} \cup SegmentSpans(a) \cup
    {ContentRange(a.files[f]) : f \in {g \in DOMAIN a.files : a.files[g].content_len > 0}}

\* C23: in every state reached by successful operations, a reopening
\* included, the used ranges of the coverage map are exactly the header, the
\* span of every segment and the content range of every indexed file of
\* non-zero length, and the coverage length is the stream length.
C23_CoverageExact ==
    Clean => /\ coverage.segments = LiveRanges(Self)
             /\ coverage.len = source.len

\* C25: after a successful open and after every successful mutation that
\* follows, the used ranges of the coverage map are pairwise disjoint, and no
\* zone find_free_zone_for can return holds a byte of the header, of a segment
\* or of the content of an indexed file.
C25_UsedDisjoint ==
    Clean =>
      /\ PairwiseDisjoint(coverage.segments)
      /\ LET zones == find_free_zones(coverage)
         IN \A capacity \in {0, 1, 2} \cup {zones[i].len : i \in 1..Len(zones)} :
              LET zone == find_free_zone_for(coverage, capacity)
              IN IsSome(zone) => \A r \in LiveRanges(Self) : Disjoint(zone[1], r)

C28_IndexConsistent ==
    Clean =>
      /\ DOMAIN dirs_content = {Root} \cup DOMAIN dirs
      /\ \A P \in DOMAIN dirs_content :
            LET child_dirs == {d \in DOMAIN dirs : dirs[d].parent_dir = P}
                child_files == {f \in DOMAIN files : files[f].parent_dir = P}
            IN /\ dirs_content[P].dirs = child_dirs
               /\ dirs_content[P].files = child_files
               /\ dirs_content[P].names = {dirs[d].name : d \in child_dirs}
                                          \cup {files[f].name : f \in child_files}
               /\ Cardinality(dirs_content[P].names)
                     = Cardinality(child_dirs) + Cardinality(child_files)
               /\ read_dir(Self, P).ok
               /\ read_dir(Self, P).items
                     = {[kind |-> "dir", entry |-> dirs[d]] : d \in child_dirs}
                       \cup {[kind |-> "file", entry |-> files[f]] : f \in child_files}
      /\ \A P \in Ids \ DOMAIN dirs : ~read_dir(Self, P).ok

\* The empty slots of a kind in the segment cache, and the first of a
\* non-empty set of positions in chain order, then slot order.
EmptyPositions(a, kind) ==
    {p \in SlotPositions(a, kind) : ~IsSome(Slots(a, kind, p[1])[p[2]])}
FirstPosition(ps) ==
    CHOOSE p \in ps : \A q \in ps : p[1] < q[1] \/ (p[1] = q[1] /\ p[2] <= q[2])

\* C29: create_dir (create_file) puts the new entry in the first empty
\* directory (file) slot in chain order then slot order; a segment is created
\* exactly when no segment has an empty slot of that kind, and the entry is
\* then in slot 0 of the new last segment. Every other slot is left alone.
C29_SlotAllocation ==
    Clean =>
      \A kind \in {"dir", "file"} : \A parent \in {Root} \cup DOMAIN dirs : \A n \in Names :
        LET o == IF kind = "dir" THEN create_dir(Self, parent, n, T1)
                 ELSE create_file(Self, parent, n, T1, <<5>>)
            empty == EmptyPositions(Self, kind)
            at == IF empty # {} THEN FirstPosition(empty)
                  ELSE <<Len(file_segments) + 1, 1>>
            on_disk == IF kind = "dir"
                       THEN DirectoryDecode(o.a.source, SlotAddr(o.a, kind, at))
                       ELSE FileDecode(o.a.source, SlotAddr(o.a, kind, at))
        IN o.st = "ok" =>
             /\ Len(o.a.file_segments)
                   = Len(file_segments) + (IF empty = {} THEN 1 ELSE 0)
             /\ o.ret \in DOMAIN Index(o.a, kind)
             /\ Slots(o.a, kind, at[1])[at[2]] = Some(Index(o.a, kind)[o.ret])
             /\ on_disk.ok /\ IsSome(on_disk.entry)
             /\ on_disk.entry[1].id = o.ret /\ on_disk.entry[1].name = n
             /\ \A k \in {"dir", "file"} : \A p \in SlotPositions(o.a, k) :
                   (k # kind \/ p # at) =>
                      Slots(o.a, k, p[1])[p[2]]
                         = IF p \in SlotPositions(Self, k)
                           THEN Slots(Self, k, p[1])[p[2]] ELSE None

\* The directory slots of the first segment are full and a directory sits in
\* slot 0 of a second segment, whose other slot is empty.
C29_Witness ==
    /\ Clean
    /\ Len(file_segments) = 2
    /\ \A i \in 1..Len(file_segments[1].dirs) : IsSome(file_segments[1].dirs[i])
    /\ IsSome(file_segments[2].dirs[1])
    /\ EmptyPositions(Self, "file") # {}
    /\ \A i \in 1..Len(file_segments[2].files) : ~IsSome(file_segments[2].files[i])

\* The chain read from byte 256 on, as open reads it, is the segment cache:
\* same number of segments, same addresses, links and capacities.
ChainMatches(a) ==
    LET chain == DecodeChain(a.source, HEADER_SIZE)
    IN /\ chain.ok
       /\ Len(chain.segs) = Len(a.file_segments)
       /\ \A i \in 1..Len(a.file_segments) :
             /\ chain.segs[i][1] = segment_addr(a, i)
             /\ chain.segs[i][2].next_segment_addr = a.file_segments[i].next_segment_addr
             /\ Len(chain.segs[i][2].dirs) = Len(a.file_segments[i].dirs)
             /\ Len(chain.segs[i][2].files) = Len(a.file_segments[i].files)

\* b has the segments of a at the same addresses with the same capacities,
\* and possibly more after them.
ChainExtends(a, b) ==
    /\ Len(b.file_segments) >= Len(a.file_segments)
    /\ \A i \in 1..Len(a.file_segments) :
          /\ segment_addr(b, i) = segment_addr(a, i)
          /\ Len(b.file_segments[i].dirs) = Len(a.file_segments[i].dirs)
          /\ Len(b.file_segments[i].files) = Len(a.file_segments[i].files)

\* C30: after a segment is created the former tail's next_segment_addr is the
\* address of the new segment on disk and in memory, the new segment's
\* next_segment_addr is zero, the segments that existed keep their address
\* and capacities, and the chain read from byte 256 is the segment cache; no
\* step of the archive removes a segment.
C30_ChainLinkage ==
    /\ [](Clean =>
            /\ ChainMatches(Self)
            /\ LET c == create_segment(Self)
                   n == Len(file_segments)
               IN /\ c.st = "ok"
                  /\ c.ret = n + 1
                  /\ Len(c.a.file_segments) = n + 1
                  /\ c.a.file_segments[n].next_segment_addr = segment_addr(c.a, n + 1)
                  /\ segment_addr(c.a, n + 1) >= HEADER_SIZE + encoded_len(file_segments[1])
                  /\ c.a.source.cells[segment_addr(Self, n)]
                        = U64Cell(segment_addr(c.a, n + 1))
                  /\ c.a.file_segments[n + 1].next_segment_addr = 0
                  /\ Len(c.a.file_segments[n + 1].dirs) = default_dirs_capacity_by_ft_segment
                  /\ Len(c.a.file_segments[n + 1].files) = default_files_capacity_by_ft_segment
                  /\ ChainExtends(Self, c.a)
                  /\ ChainMatches(c.a))
    /\ [][(status = "open" /\ status' = "open") => ChainExtends(Self, Self')]_vars

\* Two segments in the cache, the first linked to the second on disk.
C30_Witness ==
    /\ Clean
    /\ Len(file_segments) = 2
    /\ file_segments[1].next_segment_addr = segment_addr(Self, 2)
    /\ file_segments[2].next_segment_addr = 0
    /\ Len(DecodeChain(source, HEADER_SIZE).segs) = 2

\* ------------------------------------------------- writes of one operation
\* The stream after each write_all of one call, in the order the call makes
\* them; the first element is the stream the call found.
\* Archive::create_file: the writes of get_addr_for_item_insert (the new
\* segment, then its link, when no slot is empty), the content, the entry.
\* before_entry is the archive when the entry is about to be written.
create_file_trail(a, parent_dir, name, modif_time, content) ==
    LET full == \A s \in 1..Len(a.file_segments) : FirstEmptyIn(a.file_segments[s], "file") < 0
        seg == write_data_where_possible(a,
                   FileTableSegmentEncode(NewSegment(default_dirs_capacity_by_ft_segment,
                                                     default_files_capacity_by_ft_segment)))
        ins == get_addr_for_item_insert(a, "file")
        w == write_data_where_possible(ins.a, ContentCells(content))
        o == CreateFileAt(ins, w, parent_dir, name, modif_time, content)
    IN IF ~ensure_no_duplicate_name(a, name, parent_dir)
       THEN [o |-> Outcome("err", a, 0), before_entry |-> Outcome("err", a, 0),
             trail |-> <<a.source>>]
       ELSE [o |-> o, before_entry |-> w,
             trail |-> <<a.source>>
                       \o (IF full THEN <<seg.a.source>> ELSE <<>>)
                       \o <<ins.a.source>>
                       \o (IF ins.st = "ok" THEN <<w.a.source>> ELSE <<>>)
                       \o (IF ins.st = "ok" /\ w.st = "ok" THEN <<o.a.source>> ELSE <<>>)]

\* Archive::remove_dir with the stream after each write: the set, over the
\* orders of the children, of [o, trail], trail extending the one given.
RECURSIVE remove_dir_trail(_, _, _)
RECURSIVE RemoveSubDirsTrail(_, _, _)
RECURSIVE RemoveSubFilesTrail(_, _, _)

RemoveSubDirsTrail(a, sub_dirs, trail) ==
    IF sub_dirs = {} THEN {[o |-> Outcome("ok", a, 0), trail |-> trail]}
    ELSE UNION {UNION {IF r.o.st = "ok"
                       THEN RemoveSubDirsTrail(r.o.a, sub_dirs \ {d}, r.trail)
                       ELSE {r}
                        : r \in remove_dir_trail(a, d, trail)}
                : d \in sub_dirs}

RemoveSubFilesTrail(a, sub_files, trail) ==
    IF sub_files = {} THEN {[o |-> Outcome("ok", a, 0), trail |-> trail]}
    ELSE UNION {LET o == remove_file(a, f)
                    written == IF o.st = "err" THEN trail ELSE Append(trail, o.a.source)
                IN IF o.st = "ok" THEN RemoveSubFilesTrail(o.a, sub_files \ {f}, written)
                   ELSE {[o |-> o, trail |-> written]}
                : f \in sub_files}

remove_dir_trail(a, id, trail) ==
    LET found == get_item_entry(a, "dir", id)
        sub_dirs == {d \in DOMAIN a.dirs : a.dirs[d].parent_dir = id}
        sub_files == {f \in DOMAIN a.files : a.files[f].parent_dir = id}
        after_dirs == RemoveSubDirsTrail(a, sub_dirs, trail)
        after_files == UNION {IF r.o.st = "ok"
                              THEN RemoveSubFilesTrail(r.o.a, sub_files, r.trail)
                              ELSE {r}
                              : r \in after_dirs}
    IN IF ~IsSome(found) THEN {[o |-> Outcome("err", a, 0), trail |-> trail]}
       ELSE {IF r.o.st = "ok"
             THEN LET o == RemoveDirEntry(r.o.a, id, found[1])
                  IN [o |-> o, trail |-> Append(r.trail, o.a.source)]
             ELSE r
             : r \in after_files}

\* What the stream src holds is sound: the content range of every occupied
\* file slot lies in the stream and holds bytes with the recorded checksum,
\* and the parent of every occupied slot is root or an occupied directory.
DiskSound(src) ==
    LET ds == StreamDirs(src)
        fs == StreamFiles(src)
        ids == {ds[i].id : i \in 1..Len(ds)}
    IN /\ \A i \in 1..Len(fs) :
            /\ fs[i].content_addr + fs[i].content_len <= src.len
            /\ Sha3([k \in 1..fs[i].content_len |-> ByteAt(src, fs[i].content_addr + k - 1)])
                   = fs[i].sha3_checksum
            /\ fs[i].parent_dir \in {Root} \cup ids
       /\ \A i \in 1..Len(ds) : ds[i].parent_dir \in {Root} \cup ids

\* Identifiers held by the occupied slots of the stream.
DiskIds(src, kind) ==
    LET es == IF kind = "dir" THEN StreamDirs(src) ELSE StreamFiles(src)
    IN {es[i].id : i \in 1..Len(es)}

\* C31: in create_file the content is in the stream and its range marked used
\* when the entry slot is still empty, and the entry is written after it; in
\* remove_dir, in whatever order the children are visited, no descendant is
\* left in a slot of the stream when the slot of the directory itself is
\* zeroed; and after each write of either call, every occupied file slot of
\* the stream has its whole content in the stream and every occupied slot has
\* a parent that is root or occupies a slot of the stream.
C31_WriteOrdering ==
    Clean =>
      /\ \A id \in DOMAIN dirs : \A r \in remove_dir_trail(Self, id, <<source>>) :
            LET sub_dirs == SubtreeDirs(Self, {id})
                sub_files == SubtreeFiles(Self, sub_dirs)
                n == Len(r.trail)
            IN /\ r.o \in remove_dir(Self, id)
               /\ \A k \in 1..n : DiskSound(r.trail[k])
               /\ r.o.st = "ok" =>
                    /\ n >= 2
                    /\ id \in DiskIds(r.trail[n - 1], "dir")
                    /\ DiskIds(r.trail[n - 1], "dir") \cap (sub_dirs \ {id}) = {}
                    /\ DiskIds(r.trail[n - 1], "file") \cap sub_files = {}
                    /\ id \notin DiskIds(r.trail[n], "dir")
      /\ \A p \in {Root} \cup DOMAIN dirs : \A name \in Names : \A c \in Contents :
            LET r == create_file_trail(Self, p, name, T1, c)
                n == Len(r.trail)
                w == r.before_entry
            IN /\ r.o = create_file(Self, p, name, T1, c)
               /\ \A k \in 1..n : DiskSound(r.trail[k])
               /\ r.o.st = "ok" =>
                    /\ r.trail[n - 1] = w.a.source
                    /\ ContentAt(w.a.source, w.ret, c)
                    /\ Len(c) > 0 =>
                          [start |-> w.ret, len |-> Len(c)] \in w.a.coverage.segments
                    /\ r.o.ret \notin DiskIds(w.a.source, "file")
                    /\ r.o.ret \in DiskIds(r.trail[n], "file")
                    /\ ContentAt(r.trail[n], w.ret, c)

\* C32: when Archive::open returns an archive, the parent_dir of every
\* directory and file it loaded is root or the id of a directory of that
\* archive, and every key of the child map is root or such an id.
C32_OpenParentValid ==
    (status = "open" /\ nops = 1) =>
      /\ \A d \in DOMAIN dirs : dirs[d].parent_dir \in {Root} \cup DOMAIN dirs
      /\ \A f \in DOMAIN files : files[f].parent_dir \in {Root} \cup DOMAIN dirs
      /\ DOMAIN dirs_content \subseteq {Root} \cup DOMAIN dirs

\* ------------------------------------------- the segment walk of open
\* A sixth workload: Archive::open followed step by step through its loop
\* over consume_next_segment, on a stream that was not written by this
\* session. The stream holds a valid header and MaxWalkSegments segments
\* without slots, one after the other from HEADER_SIZE on; the
\* next_segment_addr of each is 0, the address of any of them, or the end of
\* the stream.
MaxWalkSegments == 3
WalkAddr(i) == HEADER_SIZE + 16 * (i - 1)
WalkNexts == {0} \cup {WalkAddr(i) : i \in 1..(MaxWalkSegments + 1)}

RECURSIVE WalkStream(_, _)
WalkStream(next, n) ==
    IF n = 0 THEN WriteAt(EmptySource, 0, <<HeaderCell>>)
    ELSE WriteAt(WalkStream(next, n - 1), WalkAddr(n),
                 FileTableSegmentEncode([next_segment_addr |-> next[n],
                                         dirs |-> <<>>, files |-> <<>>]))

\* The variables of the archive, and the state in which there is none yet.
archive_vars == <<source, file_segments, dirs, files, dirs_content, coverage, status,
                  result, nops, all_ok, supplied, reader, last_read>>
NoArchive ==
    /\ file_segments = <<>>
    /\ dirs = EmptyMap
    /\ files = EmptyMap
    /\ dirs_content = EmptyMap
    /\ coverage = CoverageNew(0)
    /\ status = "closed"
    /\ result = "ok"
    /\ nops = 0
    /\ all_ok = TRUE
    /\ supplied = EmptyMap
    /\ reader = None
    /\ last_read = NoRead(0)

InitWalk ==
    /\ \E next \in [1..MaxWalkSegments -> WalkNexts] :
            source = WalkStream(next, MaxWalkSegments)
    /\ NoArchive
    /\ NoUnit

\* Vec::push on a local of the loop. The model keeps the first
\* MaxWalkSegments elements of file_segments (and one address more), which
\* is all of them whenever no segment is visited twice. odd tells whether
\* the number of elements pushed onto file_segments is odd.
WalkPush(v, x, cap) == IF Len(v) < cap THEN Append(v, x) ELSE v

\* Header::decode and the decoding of the first segment. pc tells whether
\* open is in its loop or past it.
OpenFirstSegment ==
    /\ status = "closed"
    /\ walk = None
    /\ LET s == FileTableSegmentDecode(source, HEADER_SIZE)
       IN IF ~(HasCell(source, 0, "magic") /\ source.cells[0] = HeaderCell) \/ ~s.ok
          THEN Reopened(Outcome("err", Self, 0))
          ELSE /\ walk' = Some([pc |-> "loop",
                                file_segments |-> <<>>,
                                odd |-> FALSE,
                                file_segments_addr |-> <<HEADER_SIZE>>,
                                prev_segment |-> s.segment])
               /\ UNCHANGED <<archive_vars, real_file, in_memory, arg, ret>>

\* One turn of `while let Some(next_segment) = prev_segment.consume_next_segment(..)`.
OpenNextSegment ==
    /\ status = "closed"
    /\ IsSome(walk)
    /\ walk[1].pc = "loop"
    /\ walk[1].prev_segment.next_segment_addr # 0
    /\ LET w == walk[1]
           addr == w.prev_segment.next_segment_addr
           s == FileTableSegmentDecode(source, addr)
       IN IF ~s.ok
          THEN Reopened(Outcome("err", Self, 0))
          ELSE /\ walk' = Some([w EXCEPT
                                  !.file_segments =
                                      WalkPush(@, w.prev_segment, MaxWalkSegments),
                                  !.odd = ~@,
                                  !.file_segments_addr =
                                      WalkPush(@, addr, MaxWalkSegments + 1),
                                  !.prev_segment = s.segment])
               /\ UNCHANGED <<archive_vars, real_file, in_memory, arg, ret>>

\* consume_next_segment gave None: the loop is left and the last segment
\* pushed.
OpenLoopExit ==
    /\ status = "closed"
    /\ IsSome(walk)
    /\ walk[1].pc = "loop"
    /\ walk[1].prev_segment.next_segment_addr = 0
    /\ walk' = Some([walk[1] EXCEPT !.pc = "after",
                                    !.odd = ~@,
                                    !.file_segments = Append(@, walk[1].prev_segment)])
    /\ UNCHANGED <<archive_vars, real_file, in_memory, arg, ret>>

\* The rest of open: the coverage, the index, the check of the file table.
OpenAfterLoop ==
    /\ status = "closed"
    /\ IsSome(walk)
    /\ walk[1].pc = "after"
    /\ LET w == walk[1]
       IN \E o \in {OpenChain(source,
                    [ok |-> TRUE,
                     segs |-> [i \in 1..Len(w.file_segments) |->
                                 <<w.file_segments_addr[i], w.file_segments[i]>>]])} :
            Reopened(o)

NextWalk ==
    \/ OpenFirstSegment
    \/ OpenNextSegment
    \/ OpenLoopExit
    \/ OpenAfterLoop

\* open runs on the thread of its caller and waits for nothing but the
\* stream: while it is in its loop or before it, it takes its next step.
SpecWalk ==
    /\ InitWalk /\ [][NextWalk]_vars
    /\ WF_vars(OpenFirstSegment) /\ WF_vars(OpenNextSegment) /\ WF_vars(OpenLoopExit)

\* open has left its loop, with an error or with the list of the segments.
LoopLeft == status # "closed" \/ (IsSome(walk) /\ walk[1].pc = "after")

\* C33: Archive::open on any stream of the workload leaves its loop over the
\* segments after finitely many hops (what follows the loop is straight-line
\* code that returns the archive or an error), also when the
\* next_segment_addr of a segment is the address of a segment visited before.
C33_OpenTerminates == <>LoopLeft

\* The stream that holds nothing but the fields cells, from address 0 on.
Encoded(cells) == WriteAt(EmptySource, 0, cells)

\* C34: decoding the encoding of any directory or file of the index gives
\* that entry back in every field; encoding what an occupied slot of the
\* stream decodes to gives the fields of that slot back; an all-zero slot
\* decodes to the empty slot and an empty slot is encoded as zeros.
C34_EntryCodecRoundTrip ==
    Clean =>
      /\ \A d \in DOMAIN dirs :
            DirectoryDecode(Encoded(DirectoryEncode(dirs[d])), 0)
                = [ok |-> TRUE, entry |-> Some(dirs[d])]
      /\ \A f \in DOMAIN files :
            FileDecode(Encoded(FileEncode(files[f])), 0)
                = [ok |-> TRUE, entry |-> Some(files[f])]
      /\ \A p \in SlotPositions(Self, "dir") :
            LET e == DirectoryDecode(source, SlotAddr(Self, "dir", p))
            IN (e.ok /\ IsSome(e.entry)) =>
                  \A k \in DOMAIN Encoded(DirectoryEncode(e.entry[1])).cells :
                      source.cells[SlotAddr(Self, "dir", p) + k]
                          = Encoded(DirectoryEncode(e.entry[1])).cells[k]
      /\ \A p \in SlotPositions(Self, "file") :
            LET e == FileDecode(source, SlotAddr(Self, "file", p))
            IN (e.ok /\ IsSome(e.entry)) =>
                  \A k \in DOMAIN Encoded(FileEncode(e.entry[1])).cells :
                      source.cells[SlotAddr(Self, "file", p) + k]
                          = Encoded(FileEncode(e.entry[1])).cells[k]
      /\ DirectoryDecode(Encoded(ZeroDirectoryEntry), 0) = [ok |-> TRUE, entry |-> None]
      /\ FileDecode(Encoded(ZeroFileEntry), 0) = [ok |-> TRUE, entry |-> None]
      /\ FileTableSegmentEncode(NewSegment(1, 1))
            = <<U64Cell(0), U32Cell(1), U32Cell(1)>> \o ZeroDirectoryEntry \o ZeroFileEntry

\* ------------------------------------------------ names, byte by byte
\* A seventh workload: the functions of data/name.rs and data/path.rs on
\* their own. A String
\* is the sequence of its UTF-8 bytes; a name field is a sequence of 256
\* bytes. (In the stream of the archive, NameCell(n) stands for the 256 bytes
\* ItemNameBytes(n).)
NAME_MAX_LEN == 255
NAME_FIELD_SIZE == 256

\* Characters the strings of the workload are made of, as UTF-8: a . / \ LF
\* CR NUL and a two-byte character (U+00E9).
NameChars == {<<97>>, <<46>>, <<47>>, <<92>>, <<10>>, <<13>>, <<0>>, <<195, 169>>}
\* Bytes a crafted name field is made of (169 alone and 195 alone are not
\* UTF-8).
FieldBytes == {97, 46, 47, 92, 10, 13, 0, 195, 169}
\* Number of characters of the short strings, and of bytes of the crafted
\* part of a field.
MaxNameChars == 2

RECURSIVE StringsUpTo(_, _)
StringsUpTo(chars, n) ==
    IF n = 0 THEN {<<>>}
    ELSE LET shorter == StringsUpTo(chars, n - 1)
         IN shorter \cup {s \o c : s \in shorter, c \in chars}

Repeated(c, n) == [i \in 1..(n * Len(c)) |-> c[((i - 1) % Len(c)) + 1]]

\* Strings at the length limit: NAME_MAX_LEN - 1, NAME_MAX_LEN and
\* NAME_MAX_LEN + 1 bytes, in one-byte and in two-byte characters.
LongStrings ==
    {Repeated(<<97>>, n) : n \in {NAME_MAX_LEN - 1, NAME_MAX_LEN, NAME_MAX_LEN + 1}}
    \cup {Repeated(<<195, 169>>, NAME_FIELD_SIZE \div 2),
          Repeated(<<195, 169>>, NAME_MAX_LEN \div 2) \o <<97>>,
          Repeated(<<195, 169>>, NAME_MAX_LEN \div 2)}

\* str::is_empty, str::len() > 255, str::contains(char) for an ASCII char.
\* NameTooLongFrom255 is the length test with >= in place of >.
NameTooLongFrom255(name) == Len(name) >= NAME_MAX_LEN
NameTooLong(name) == Len(name) > NAME_MAX_LEN
ForbiddenChars == <<47, 92, 10, 13, 0>>
Contains(name, b) == \E i \in 1..Len(name) : name[i] = b

\* ItemName::check_validity: "ok" or the NameValidationError.
check_validity(name) ==
    IF name = <<>> THEN "NameIsEmpty"
    ELSE IF NameTooLong(name) THEN "NameIsTooLong"
    ELSE IF \E k \in 1..Len(ForbiddenChars) : Contains(name, ForbiddenChars[k])
    THEN "ForbiddenChar"
    ELSE "ok"

\* ItemName::new: [ok, name, err].
ItemNameNew(name) ==
    [ok |-> check_validity(name) = "ok", name |-> name, err |-> check_validity(name)]

\* ItemName::encode: the length, the bytes of the name, zeros.
ItemNameBytes(name) ==
    [i \in 1..NAME_FIELD_SIZE |->
        IF i = 1 THEN Len(name) ELSE IF i - 1 <= Len(name) THEN name[i - 1] ELSE 0]

\* std::str::from_utf8 on bytes below 0xE0: a byte of 0xC2..0xDF is followed
\* by one of 0x80..0xBF, which stands nowhere else; the bytes 0x80..0xC1 do
\* not start a character.
Utf8Valid(bytes) ==
    \A i \in 1..Len(bytes) :
        /\ bytes[i] < 224 /\ bytes[i] \notin {192, 193}
        /\ (bytes[i] >= 194) => (i < Len(bytes) /\ bytes[i + 1] \in 128..191)
        /\ (bytes[i] \in 128..191) => (i > 1 /\ bytes[i - 1] \in 194..223)

\* ItemName::decode of a 256-byte field.
ItemNameDecode(bytes) ==
    LET len == bytes[1]
        name == SubSeq(bytes, 2, len + 1)
    IN IF ~Utf8Valid(name) THEN [ok |-> FALSE, name |-> <<>>, err |-> "InvalidUtf8"]
       ELSE ItemNameNew(name)

\* A field with the given length byte, then body, then pad up to its size.
CraftedField(len, body, pad) ==
    [i \in 1..NAME_FIELD_SIZE |->
        IF i = 1 THEN len ELSE IF i - 1 <= Len(body) THEN body[i - 1] ELSE pad]
CraftedFields ==
    {CraftedField(len, body, pad) :
        len \in 0..(MaxNameChars + 1),
        body \in StringsUpTo({<<b>> : b \in FieldBytes}, MaxNameChars),
        pad \in {0, 97}}
    \cup {CraftedField(NAME_MAX_LEN, Repeated(<<97>>, NAME_MAX_LEN), 0)}

\* ------------------------------------------------------------ paths
\* data/path.rs. A path is a String as above; PathInArchive is the sequence
\* of its components.
\* Characters the paths of the workload are made of: a . / \
PathChars == {<<97>>, <<46>>, <<47>>, <<92>>}
MaxPathChars == 6
\* Paths with a component at the length limit of a name.
LongPaths ==
    {Repeated(<<97>>, NAME_MAX_LEN + 1),
     <<97, 47>> \o Repeated(<<97>>, NAME_MAX_LEN),
     <<46, 46, 47>> \o Repeated(<<97>>, NAME_MAX_LEN + 1) \o <<47, 97>>}

\* The elements of a set of numbers in increasing order.
Ascending(S) ==
    [k \in 1..Cardinality(S) |-> CHOOSE x \in S : Cardinality({y \in S : y < x}) = k - 1]

\* str::split('/'): the parts between the separators, in order.
SplitOnSlash(path) ==
    LET cuts == Ascending({0, Len(path) + 1} \cup {i \in 1..Len(path) : path[i] = 47})
    IN [k \in 1..(Len(cuts) - 1) |-> SubSeq(path, cuts[k] + 1, cuts[k + 1] - 1)]

\* Vec::pop, and the same doing nothing.
PopNothing(out) == out
PopLast(out) == IF out = <<>> THEN out ELSE SubSeq(out, 1, Len(out) - 1)

\* The loop of PathInArchive::new over the components from the i-th on.
RECURSIVE PathScan(_, _, _)
PathScan(components, i, out) ==
    IF i > Len(components) THEN [ok |-> TRUE, components |-> out]
    ELSE IF components[i] = <<>> THEN PathScan(components, i + 1, out)
    ELSE IF components[i] = <<46>> THEN PathScan(components, i + 1, out)
    ELSE IF components[i] = <<46, 46>> THEN PathScan(components, i + 1, PopLast(out))
    ELSE IF ~ItemNameNew(components[i]).ok THEN [ok |-> FALSE, components |-> <<>>]
    ELSE PathScan(components, i + 1, Append(out, components[i]))

\* PathInArchive::new
PathInArchiveNew(path) ==
    IF path = <<>> THEN [ok |-> FALSE, components |-> <<>>]
    ELSE PathScan(SplitOnSlash(path), 1, <<>>)

\* The variables other than arg and ret.
data_others == <<archive_vars, walk, real_file, in_memory>>

InitData ==
    /\ \/ \E s \in StringsUpTo(NameChars, MaxNameChars) \cup LongStrings :
              arg = Some([kind |-> "string", value |-> s])
       \/ \E f \in CraftedFields : arg = Some([kind |-> "field", value |-> f])
       \/ \E s \in StringsUpTo(PathChars, MaxPathChars) \cup LongPaths :
              arg = Some([kind |-> "path", value |-> s])
    /\ ret = None
    /\ source = EmptySource
    /\ NoArchive
    /\ walk = None
    /\ real_file = None
    /\ in_memory = None

\* ItemName::new(arg)
NameNew ==
    /\ IsSome(arg) /\ arg[1].kind = "string"
    /\ ret = None
    /\ ret' = Some([stage |-> "new", value |-> ItemNameNew(arg[1].value)])
    /\ UNCHANGED <<arg, data_others>>

\* name.encode() on the ItemName just made
NameEncode ==
    /\ IsSome(ret) /\ ret[1].stage = "new" /\ ret[1].value.ok
    /\ ret' = Some([stage |-> "encoded", value |-> ItemNameBytes(ret[1].value.name)])
    /\ UNCHANGED <<arg, data_others>>

\* ItemName::decode on the field given, or on the field just encoded
NameDecode ==
    /\ \/ /\ IsSome(arg) /\ arg[1].kind = "field" /\ ret = None
          /\ ret' = Some([stage |-> "decoded", value |-> ItemNameDecode(arg[1].value)])
       \/ /\ IsSome(ret) /\ ret[1].stage = "encoded"
          /\ ret' = Some([stage |-> "decoded", value |-> ItemNameDecode(ret[1].value)])
    /\ UNCHANGED <<arg, data_others>>

\* PathInArchive::new(arg)
PathNew ==
    /\ IsSome(arg) /\ arg[1].kind = "path"
    /\ ret = None
    /\ ret' = Some([stage |-> "path", value |-> PathInArchiveNew(arg[1].value)])
    /\ UNCHANGED <<arg, data_others>>

NextData ==
    \/ NameNew
    \/ NameEncode
    \/ NameDecode
    \/ PathNew

SpecData == InitData /\ [][NextData]_vars

\* C35: ItemName::new accepts a string exactly when it has 1 to 255 bytes and
\* none of / \ LF CR NUL, and keeps it as it is; the encoding of an accepted
\* name is 256 bytes long and decodes to that name; decode rejects a field
\* whose length byte is 0 or whose named bytes hold one of these characters.
C35_NameValidity ==
    (IsSome(arg) /\ IsSome(ret)) =>
      LET v == arg[1].value
          r == ret[1].value
          named == SubSeq(v, 2, v[1] + 1)
      IN /\ (arg[1].kind = "string" /\ ret[1].stage = "new") =>
               /\ r.ok <=> /\ Len(v) >= 1
                           /\ Len(v) <= 255
                           /\ \A i \in 1..Len(v) : v[i] \notin {47, 92, 10, 13, 0}
               /\ r.ok => r.name = v
               /\ Len(v) \in {1, 255} /\ (\A i \in 1..Len(v) : v[i] = 97) => r.ok
               /\ Len(v) \in {0, 256} => ~r.ok
         /\ (arg[1].kind = "string" /\ ret[1].stage = "encoded") =>
               /\ Len(r) = 256
               /\ r[1] = Len(v)
               /\ SubSeq(r, 2, Len(v) + 1) = v
               /\ \A i \in (Len(v) + 2)..256 : r[i] = 0
         /\ (arg[1].kind = "string" /\ ret[1].stage = "decoded") =>
               (r.ok /\ r.name = v)
         /\ (arg[1].kind = "field" /\ ret[1].stage = "decoded") =>
               /\ v[1] = 0 => ~r.ok
               /\ (\E i \in 1..Len(named) : named[i] \in {47, 92, 10, 13, 0}) => ~r.ok
               /\ r.ok => r.name = named

\* A name of 255 bytes, some of them in two-byte characters, was accepted,
\* encoded and decoded.
C35_Witness ==
    /\ IsSome(arg) /\ arg[1].kind = "string"
    /\ Len(arg[1].value) = 255
    /\ arg[1].value[1] = 195
    /\ IsSome(ret) /\ ret[1].stage = "decoded"
    /\ ret[1].value.ok
    /\ ret[1].value.name = arg[1].value

\* The header written by Archive::create is in the stream src, whole: nothing
\* was written since over any byte below HEADER_SIZE (a write replaces every
\* field it covers, and no call but Archive::create writes a header).
HeaderIntact(src) ==
    /\ HasCell(src, 0, "magic")
    /\ src.cells[0] = HeaderCell
    /\ \A addr \in DOMAIN src.cells : addr = 0 \/ addr >= HEADER_SIZE

\* C36: from Archive::create on, whatever the calls made (create_dir,
\* create_file, replace_file_content, the renames and removals, the creation
\* of a segment within them, close and open) and whatever they return, no
\* step changes a byte of the header: a step that finds the header whole
\* leaves it whole, and it is whole at the start.
C36_HeaderImmutable ==
    /\ [](nops = 0 => HeaderIntact(source))
    /\ [][HeaderIntact(source) => HeaderIntact(source')]_vars

\* Four calls were made, among them the creation of a second segment and of
\* a file with content, and the header is as Archive::create wrote it.
C36_Witness ==
    /\ Clean
    /\ nops = MaxOps
    /\ Len(file_segments) = 2
    /\ \E f \in DOMAIN files : files[f].content_len > 0
    /\ HeaderIntact(source)

\* The components of a path that are neither empty nor "." nor "..", by
\* position, and the number of ".." and of such components in a stretch.
IsPlain(c) == c # <<>> /\ c # <<46>> /\ c # <<46, 46>>
PlainIn(cs, i, j) == Cardinality({k \in (i + 1)..j : IsPlain(cs[k])})
DotDotsIn(cs, i, j) == Cardinality({k \in (i + 1)..j : cs[k] = <<46, 46>>})
\* A plain component stays unless, at some later point, the ".." met since
\* outnumber the plain components met since.
Surviving(cs) ==
    {i \in 1..Len(cs) :
        /\ IsPlain(cs[i])
        /\ \A j \in (i + 1)..Len(cs) : DotDotsIn(cs, i, j) <= PlainIn(cs, i, j)}

\* C38: PathInArchive::new fails on the empty string and on a path with a
\* component, other than the empty one, that is not a valid name; otherwise
\* it gives, in their order, the components that are not empty, "." or ".."
\* and that no later ".." removed, each ".." removing the last component
\* kept before it, if any: the result holds no empty, "." or ".." component.
C38_PathNormalisation ==
    (IsSome(arg) /\ arg[1].kind = "path" /\ IsSome(ret)) =>
      LET path == arg[1].value
          r == ret[1].value
          cs == SplitOnSlash(path)
          kept == Ascending(Surviving(cs))
      IN /\ r.ok <=> /\ path # <<>>
                     /\ \A k \in 1..Len(cs) : cs[k] = <<>> \/ check_validity(cs[k]) = "ok"
         /\ r.ok =>
               /\ r.components = [k \in 1..Len(kept) |-> cs[kept[k]]]
               /\ \A k \in 1..Len(r.components) :
                     /\ IsPlain(r.components[k])
                     /\ check_validity(r.components[k]) = "ok"
         /\ Len(cs) = 1 + Cardinality({i \in 1..Len(path) : path[i] = 47})
         /\ \A k \in 1..Len(cs) : ~Contains(cs[k], 47)

\* The path a/../b was given: its result is the single component b.
C38_Witness ==
    /\ IsSome(arg) /\ arg[1].kind = "path"
    /\ arg[1].value = <<97, 47, 46, 46, 47, 97>>
    /\ IsSome(ret)
    /\ ret[1].value = [ok |-> TRUE, components |-> << <<97>> >>]

\* ------------------------------------------------------------ paths of items
\* An eighth workload: a caller that creates items whose names include "."
\* and "..", which ItemName::check_validity accepts, and reopens the archive.
MaxPathOps == 3
PathNames == {"a", ".", ".."}
PathParents == {Root} \cup 1..MaxPathOps
PathBudget == nops < MaxPathOps

NextPaths ==
    \/ \E p \in PathParents, n \in PathNames : PathBudget /\ CreateDir(p, n, T1)
    \/ \E p \in PathParents, n \in PathNames, c \in DeepContents :
            PathBudget /\ CreateFile(p, n, T1, c)
    \/ PathBudget /\ CloseOpen

SpecPaths == Init /\ [][NextPaths]_vars

\* The bytes of the names the workloads use (String::as_bytes).
NameUtf8(name) ==
    CASE name = "." -> <<46>>
      [] name = ".." -> <<46, 46>>
      [] name = "a" -> <<97>>
      [] name = "b" -> <<98>>
      [] OTHER -> <<99>>

\* The loop of Archive::compute_item_path: the names of the directories from
\* next up to the root, nearest first. get_dir(..).unwrap() panics on an
\* unknown directory; the loop does not end on a cycle of parents.
RECURSIVE ParentNames(_, _, _)
ParentNames(a, next, seen) ==
    IF next = Root THEN [st |-> "ok", components |-> <<>>]
    ELSE IF next \notin DOMAIN a.dirs THEN [st |-> "panic", components |-> <<>>]
    ELSE IF next \in seen THEN [st |-> "diverges", components |-> <<>>]
    ELSE LET up == ParentNames(a, a.dirs[next].parent_dir, seen \cup {next})
         IN [st |-> up.st, components |-> <<NameUtf8(a.dirs[next].name)>> \o up.components]

\* components.iter().rev(), each followed by '/', then the name of the item.
RECURSIVE JoinedRev(_, _)
JoinedRev(components, i) ==
    IF i = 0 THEN <<>> ELSE components[i] \o <<47>> \o JoinedRev(components, i - 1)

compute_item_path(a, item_name, first_parent_dir) ==
    LET up == ParentNames(a, first_parent_dir, {})
    IN [st |-> up.st,
        path |-> JoinedRev(up.components, Len(up.components)) \o NameUtf8(item_name)]

compute_dir_path(a, dir_id) ==
    IF dir_id \notin DOMAIN a.dirs THEN [st |-> "err", path |-> <<>>]
    ELSE compute_item_path(a, a.dirs[dir_id].name, a.dirs[dir_id].parent_dir)

compute_file_path(a, file_id) ==
    IF file_id \notin DOMAIN a.files THEN [st |-> "err", path |-> <<>>]
    ELSE compute_item_path(a, a.files[file_id].name, a.files[file_id].parent_dir)

\* ItemIdOrRoot
ItemRoot == [kind |-> "root", id |-> Root]
ItemDir(id) == [kind |-> "dir", id |-> id]
ItemFile(id) == [kind |-> "file", id |-> id]

\* dir_entries.find(|item| item.name() == segment): the directories come
\* before the files, each group in the order of its hash set.
FindByName(items, segment) ==
    LET hits(kind) == {item \in items :
                          item.kind = kind /\ NameUtf8(item.entry.name) = segment}
    IN IF hits("dir") # {} THEN {ItemDir(item.entry.id) : item \in hits("dir")}
       ELSE {ItemFile(item.entry.id) : item \in hits("file")}

\* The loop of WithPaths::get_item_at from the i-th segment on: the values it
\* may return.
RECURSIVE ResolveFrom(_, _, _, _)
ResolveFrom(a, segments, i, curr) ==
    IF i > Len(segments) THEN {Some(curr)}
    ELSE IF curr.kind = "file" THEN {None}
    ELSE LET listing == read_dir(a, curr.id)
             found == FindByName(listing.items, segments[i])
         IN IF ~listing.ok \/ found = {} THEN {None}
            ELSE UNION {ResolveFrom(a, segments, i + 1, next) : next \in found}

\* WithPaths::get_item_at
get_item_at(a, path) ==
    LET parsed == PathInArchiveNew(path)
    IN IF ~parsed.ok THEN {None}
       ELSE ResolveFrom(a, parsed.components, 1, ItemRoot)

\* C37: for every directory and every file of the archive,
\* compute_dir_path / compute_file_path succeeds and get_item_at of that path
\* returns that very item.
C37_PathRoundTrip ==
    Clean =>
        /\ \A d \in DOMAIN dirs :
              LET p == compute_dir_path(Self, d)
              IN p.st = "ok" /\ get_item_at(Self, p.path) = {Some(ItemDir(d))}
        /\ \A f \in DOMAIN files :
              LET p == compute_file_path(Self, f)
              IN p.st = "ok" /\ get_item_at(Self, p.path) = {Some(ItemFile(f))}

\* ------------------------------------------------------------ RealFile
\* source/real_file.rs. real_file holds the fields of a RealFile<true> and the
\* file under it:
\*   disk      the bytes of the file,
\*   offset    the offset of the open file description, which the handles made
\*             by File::try_clone share,
\*   buffered  Buffered::Writer with the bytes not yet written, or
\*             Buffered::Reader with the bytes read ahead and not yet consumed,
\*   position  the tracked position,
\*   written   history: for each offset, the byte last passed to write_all.
\* ret holds the last call: its name, its result, the bytes it returned, the
\* tracked position before it and its length. nops counts the calls.
MaxFileCalls == 4
MaxFileAddr == 3
FileData == {<<1>>, <<2, 3>>}
FileReadLens == 1..3
FileDisks == {<<>>, <<7, 8>>}
\* std::io::DEFAULT_BUF_SIZE, the capacity of BufReader::new and BufWriter::new
DEFAULT_BUF_SIZE == 8 * 1024

Zeros(n) == [i \in 1..n |-> 0]
\* pwrite: the bytes land at addr, a gap after the end reads as zeros.
DiskWrite(disk, addr, bytes) ==
    LET base == IF addr > Len(disk) THEN disk \o Zeros(addr - Len(disk)) ELSE disk
        end == addr + Len(bytes)
    IN [i \in 1..(IF end > Len(base) THEN end ELSE Len(base)) |->
            IF i > addr /\ i <= end THEN bytes[i - addr] ELSE base[i]]
\* read: at most n bytes from addr.
DiskRead(disk, addr, n) ==
    IF addr >= Len(disk) THEN <<>>
    ELSE SubSeq(disk, addr + 1, IF addr + n > Len(disk) THEN Len(disk) ELSE addr + n)

Writer(buf) == [kind |-> "writer", buf |-> buf]
Reader(buf) == [kind |-> "reader", buf |-> buf]

\* BufWriter::flush (flush_buf): the pending bytes go to the file at its offset.
FlushBuf(f) ==
    IF f.buffered.kind # "writer" \/ f.buffered.buf = <<>> THEN f
    ELSE [f EXCEPT !.disk = DiskWrite(f.disk, f.offset, f.buffered.buf),
                   !.offset = f.offset + Len(f.buffered.buf),
                   !.buffered = Writer(<<>>)]

\* BufWriter::seek flushes, then seeks the file; BufReader::seek to an offset
\* from the start seeks the file and discards what was read ahead.
SeekStart(f, addr) ==
    IF f.buffered.kind = "writer"
    THEN [FlushBuf(f) EXCEPT !.offset = addr]
    ELSE [f EXCEPT !.offset = addr, !.buffered = Reader(<<>>)]

\* RealFile::reader
RealFileReader(f) ==
    IF f.buffered.kind = "reader" THEN f
    ELSE SeekStart([FlushBuf(f) EXCEPT !.buffered = Reader(<<>>)], f.position)

\* RealFile::writer
RealFileWriter(f) ==
    IF f.buffered.kind = "writer" THEN f
    ELSE SeekStart([f EXCEPT !.buffered = Writer(<<>>)], f.position)

\* BufReader::read_exact of n bytes, n below the capacity: from what was read
\* ahead when that is enough; otherwise read after read, each refilling the
\* empty buffer from the file, until n bytes came or a read gives nothing,
\* which is the error UnexpectedEof, all bytes met having been consumed.
ReadExact(f, n) ==
    LET ahead == f.buffered.buf
        filled == DiskRead(f.disk, f.offset, DEFAULT_BUF_SIZE)
        all == ahead \o filled
    IN IF Len(ahead) >= n
       THEN [ok |-> TRUE, bytes |-> SubSeq(ahead, 1, n),
             f |-> [f EXCEPT !.buffered = Reader(SubSeq(ahead, n + 1, Len(ahead)))]]
       ELSE IF Len(all) >= n
       THEN [ok |-> TRUE, bytes |-> SubSeq(all, 1, n),
             f |-> [f EXCEPT !.offset = f.offset + Len(filled),
                             !.buffered = Reader(SubSeq(all, n + 1, Len(all)))]]
       ELSE [ok |-> FALSE, bytes |-> <<>>,
             f |-> [f EXCEPT !.offset = f.offset + Len(filled),
                             !.buffered = Reader(<<>>)]]

\* BufWriter::write_all: kept in the buffer when it fits in what is left of
\* it; otherwise the buffer is flushed, and data as large as the buffer goes
\* to the file directly.
BufWrite(f, data) ==
    IF Len(data) < DEFAULT_BUF_SIZE - Len(f.buffered.buf)
    THEN [f EXCEPT !.buffered = Writer(f.buffered.buf \o data)]
    ELSE LET g == FlushBuf(f)
         IN IF Len(data) >= DEFAULT_BUF_SIZE
            THEN [g EXCEPT !.disk = DiskWrite(g.disk, g.offset, data),
                           !.offset = g.offset + Len(data)]
            ELSE [g EXCEPT !.buffered = Writer(data)]

\* RealFile::consume_into_buffer
RealFileConsume(f, bytes) ==
    LET r == ReadExact(RealFileReader(f), bytes)
    IN IF r.ok THEN [r EXCEPT !.f.position = @ + bytes] ELSE r

\* RealFile::set_position
RealFileSetPosition(f, addr) == [SeekStart(f, addr) EXCEPT !.position = addr]

\* RealFile::write_all
RealFileWriteAll(f, data) ==
    LET g == BufWrite(RealFileWriter(f), data)
    IN [g EXCEPT !.position = @ + Len(data),
                 !.written = [i \in (DOMAIN @) \cup (f.position..(f.position + Len(data) - 1))
                                |-> IF i >= f.position /\ i < f.position + Len(data)
                                    THEN data[i - f.position + 1] ELSE @[i]]]

\* RealFile::flush (WritableSource)
RealFileFlush(f) == FlushBuf(RealFileWriter(f))

\* RealFile::open on a file with some content, or RealFile::create.
RealFileOpen(disk) ==
    [disk |-> disk, offset |-> 0, buffered |-> Writer(<<>>), position |-> 0,
     written |-> EmptyMap]

file_others == <<source, file_segments, dirs, files, dirs_content, coverage, status,
                 result, all_ok, supplied, reader, last_read, walk, in_memory, arg>>

InitFile ==
    /\ \E disk \in FileDisks : real_file = Some(RealFileOpen(disk))
    /\ ret = None
    /\ source = EmptySource
    /\ NoArchive
    /\ walk = None
    /\ in_memory = None
    /\ arg = None

Called(name, st, bytes, n) ==
    Some([call |-> name, st |-> st, bytes |-> bytes, at |-> real_file[1].position, n |-> n])

FileSetPosition(addr) ==
    /\ IsSome(real_file) /\ nops < MaxFileCalls
    /\ real_file' = Some(RealFileSetPosition(real_file[1], addr))
    /\ ret' = Called("set_position", "ok", <<>>, addr)
    /\ nops' = nops + 1
    /\ UNCHANGED file_others

FileWriteAll(data) ==
    /\ IsSome(real_file) /\ nops < MaxFileCalls
    /\ real_file' = Some(RealFileWriteAll(real_file[1], data))
    /\ ret' = Called("write_all", "ok", <<>>, Len(data))
    /\ nops' = nops + 1
    /\ UNCHANGED file_others

FileConsume(bytes) ==
    /\ IsSome(real_file) /\ nops < MaxFileCalls
    /\ LET r == RealFileConsume(real_file[1], bytes)
       IN /\ real_file' = Some(r.f)
          /\ ret' = Called("consume", IF r.ok THEN "ok" ELSE "err", r.bytes, bytes)
    /\ nops' = nops + 1
    /\ UNCHANGED file_others

FileFlush ==
    /\ IsSome(real_file) /\ nops < MaxFileCalls
    /\ real_file' = Some(RealFileFlush(real_file[1]))
    /\ ret' = Called("flush", "ok", <<>>, 0)
    /\ nops' = nops + 1
    /\ UNCHANGED file_others

NextFile ==
    \/ \E addr \in 0..MaxFileAddr : FileSetPosition(addr)
    \/ \E data \in FileData : FileWriteAll(data)
    \/ \E bytes \in FileReadLens : FileConsume(bytes)
    \/ FileFlush

SpecFile == InitFile /\ [][NextFile]_vars

\* The offset in the file of the next byte the buffered reader gives or the
\* buffered writer takes.
NextOffset(f) ==
    IF f.buffered.kind = "writer" THEN f.offset + Len(f.buffered.buf)
    ELSE f.offset - Len(f.buffered.buf)

\* C39: on a RealFile, after any calls of set_position, write_all, consume
\* and flush, the tracked position is the offset of the next read or write; a
\* consume that returns Ok returns, for every offset write_all has written,
\* the byte last written there; and a consume of offsets that were all
\* written returns Ok.
C39_ReadAfterWrite ==
    IsSome(real_file) =>
        LET f == real_file[1]
        IN /\ f.position = NextOffset(f)
           /\ (IsSome(ret) /\ ret[1].call = "consume") =>
                 LET c == ret[1]
                     range == c.at..(c.at + c.n - 1)
                 IN /\ c.st = "ok" =>
                          /\ Len(c.bytes) = c.n
                          /\ f.position = c.at + c.n
                          /\ \A i \in range \cap DOMAIN f.written :
                                c.bytes[i - c.at + 1] = f.written[i]
                    /\ range \subseteq DOMAIN f.written => c.st = "ok"

\* ------------------------------------------------------------ InMemorySource
\* source/in_memory.rs. in_memory holds the fields data and position of an
\* InMemorySource, and is None once a call has panicked. ret holds the last
\* call, with the position and the data before it; nops counts the calls.
MaxMemCalls == 4
MaxMemAddr == 3
MemData == {<<1>>, <<2, 3>>, <<4, 5, 6>>}
MemReadLens == 1..2
MemInitial == {<<>>, <<7, 8>>}

\* InMemorySource::from_data
from_data(data) == [data |-> data, position |-> 0]

\* data[position..position + len].copy_from_slice(bytes)
CopyInto(data, position, bytes) ==
    [i \in 1..Len(data) |->
        IF i > position /\ i <= position + Len(bytes) THEN bytes[i - position] ELSE data[i]]

\* InMemorySource::consume_into_buffer
MemConsume(m, bytes) ==
    IF m.position + bytes > Len(m.data) THEN [st |-> "err", m |-> Some(m), bytes |-> <<>>]
    ELSE [st |-> "ok", m |-> Some([m EXCEPT !.position = @ + bytes]),
          bytes |-> SubSeq(m.data, m.position + 1, m.position + bytes)]

\* InMemorySource::set_position
MemSetPosition(m, addr) ==
    IF addr > Len(m.data) THEN [st |-> "panic", m |-> None, bytes |-> <<>>]
    ELSE [st |-> "ok", m |-> Some([m EXCEPT !.position = addr]), bytes |-> <<>>]

\* InMemorySource::write_all: indexing data[position..position + len] panics
\* when position + len is beyond the length of data.
MemWriteAll(m, data) ==
    IF m.position < Len(m.data)
    THEN IF m.position + Len(data) > Len(m.data)
         THEN [st |-> "panic", m |-> None, bytes |-> <<>>]
         ELSE [st |-> "ok", bytes |-> <<>>,
               m |-> Some([data |-> CopyInto(m.data, m.position, data),
                           position |-> m.position + Len(data)])]
    ELSE [st |-> "ok", bytes |-> <<>>,
          m |-> Some([data |-> m.data \o data, position |-> m.position + Len(data)])]

mem_others == <<source, file_segments, dirs, files, dirs_content, coverage, status,
                result, all_ok, supplied, reader, last_read, walk, real_file, arg>>

InitMemory ==
    /\ \E data \in MemInitial : in_memory = Some(from_data(data))
    /\ ret = None
    /\ source = EmptySource
    /\ NoArchive
    /\ walk = None
    /\ real_file = None
    /\ arg = None

\* The state after a call that gave r.
MemCalled(name, r, given) ==
    /\ in_memory' = r.m
    /\ ret' = Some([call |-> name, st |-> r.st, bytes |-> r.bytes, given |-> given,
                    at |-> in_memory[1].position, before |-> in_memory[1].data])
    /\ nops' = nops + 1
    /\ UNCHANGED mem_others

MemorySetPosition(addr) ==
    /\ IsSome(in_memory) /\ nops < MaxMemCalls
    /\ MemCalled("set_position", MemSetPosition(in_memory[1], addr), <<addr>>)

MemoryWriteAll(data) ==
    /\ IsSome(in_memory) /\ nops < MaxMemCalls
    /\ MemCalled("write_all", MemWriteAll(in_memory[1], data), data)

MemoryConsume(bytes) ==
    /\ IsSome(in_memory) /\ nops < MaxMemCalls
    /\ MemCalled("consume", MemConsume(in_memory[1], bytes), <<bytes>>)

NextMemory ==
    \/ \E addr \in 0..MaxMemAddr : MemorySetPosition(addr)
    \/ \E data \in MemData : MemoryWriteAll(data)
    \/ \E bytes \in MemReadLens : MemoryConsume(bytes)

SpecMemory == InitMemory /\ [][NextMemory]_vars

\* C40: a call of InMemorySource::write_all(d) at a position p, which is at
\* most the size, succeeds, leaves d in the bytes p .. p+|d|-1, leaves the
\* other bytes as they were, makes the size the larger of the old size and
\* p+|d|, and makes the position p+|d|.
C40_MemoryWrite ==
    (IsSome(ret) /\ ret[1].call = "write_all") =>
        LET c == ret[1]
            d == c.given
            end == c.at + Len(d)
        IN /\ c.at <= Len(c.before)
           /\ c.st = "ok"
           /\ IsSome(in_memory)
           /\ IsSome(in_memory) =>
                 LET m == in_memory[1]
                 IN /\ Len(m.data) = (IF end > Len(c.before) THEN end ELSE Len(c.before))
                    /\ m.position = end
                    /\ \A i \in 1..Len(m.data) :
                          m.data[i] = IF i > c.at /\ i <= end THEN d[i - c.at]
                                      ELSE c.before[i]

====
